---- MODULE Spec2Model ----
(***************************************************************************)
(* codexflow: template store commands (create, edit, rename, copy, delete, *)
(* ai), the profile commands, the repeat scheduler of the run command and  *)
(* the functions they share (normalization, path resolution, rendering).   *)
(*                                                                         *)
(* Representation.  A Python str is a sequence of tokens; the token " " is *)
(* whitespace.  Duration strings are spelled one character per token       *)
(* (<<"3","s">>), other texts one word per token (<<"general">>).  An      *)
(* Optional value is a sequence of length 0 (None) or 1 (<<v>>); the same  *)
(* encoding is used for a JSON value that is null (<<>>) or a string.  A   *)
(* dict is a function whose DOMAIN is its key set.  Time is in             *)
(* milliseconds.                                                           *)
(***************************************************************************)
EXTENDS Integers, Sequences, FiniteSets, TLC

VARIABLES
    files,        \* templates directory: path <<stem, ext>> -> mapping stored in the file
    cfg,          \* config.json: default_profile, default_template_format, profiles
    lastCmd,      \* the store command that completed last
    lastStatus,   \* "ok" or the kind of SystemExit it ended with
    runPc,        \* run command: "idle", "single", "running", "sleeping", "done", "failed"
    runArgs,      \* run command: the argparse namespace of the invocation
    selected_name, \* run command: the name given to load_runner_profile, <<>> before
    runMode,      \* run command: "", "dry", "single" or "repeat" (run.py:67, 78, 80)
    now,          \* time.monotonic(), ms since the run command started
    end_time,     \* run.py:80
    repeat_every_seconds, \* run.py:65, ms; 0 for None
    run_index,    \* run.py:81, 84
    last_nonzero, \* run.py:82, 95
    codes,        \* exit codes of the runner invocations so far, in order
    ends,         \* time.monotonic() when each run of the loop exited, in order
    sleeps,       \* arguments of the time.sleep calls so far, in order
    runResult,    \* value returned by command_run (<<code>>), <<>> until it returns
    runError,     \* kind of SystemExit raised by command_run, "" if none
    input,        \* arguments of the function call under study, <<>> when none is
    output,       \* what the call returned, <<>> until it returns
    stage         \* "none", or how far the function call under study has got

storeVars == <<files, cfg, lastCmd, lastStatus>>
runVars == <<runPc, runArgs, selected_name, runMode, now, end_time, repeat_every_seconds, run_index,
             last_nonzero, codes, ends, sleeps, runResult, runError>>
callVars == <<input, output, stage>>
vars == <<files, cfg, lastCmd, lastStatus, runPc, runArgs, selected_name, runMode, now,
          end_time,
          repeat_every_seconds, run_index, last_nonzero, codes, ends, sleeps, runResult,
          runError, input, output, stage>>

----------------------------------------------------------------------------
(* Bounds of the model *)

\* Most options a single edit or run invocation carries
MaxFlags == 2
\* Largest --max-runs given
MaxRunsArg == 2
\* Most pieces a text handed to render_text_with_vars is made of
MaxPieces == 3
\* Longest duration string parsed on its own
MaxDurationLen == 4

----------------------------------------------------------------------------
(* str helpers *)

None == <<>>
Some(v) == <<v>>
IsNone(o) == o = <<>>
Val(o) == o[1]

RECURSIVE LStrip(_)
LStrip(s) == IF s # <<>> /\ Head(s) = " " THEN LStrip(Tail(s)) ELSE s

RECURSIVE RStrip(_)
RStrip(s) ==
    IF s # <<>> /\ s[Len(s)] = " " THEN RStrip(SubSeq(s, 1, Len(s) - 1)) ELSE s

\* str.strip()
Strip(s) == RStrip(LStrip(s))

LowerTok(c) ==
    CASE c = "S" -> "s"
      [] c = "M" -> "m"
      [] c = "H" -> "h"
      [] c = "D" -> "d"
      [] c = "General" -> "general"
      [] c = "None" -> "none"
      [] c = "SPECIFIC" -> "specific"
      [] c = ".JSON" -> ".json"
      [] c = ".YAML" -> ".yaml"
      [] c = ".YML" -> ".yml"
      [] OTHER -> c

\* str.lower()
Lower(s) == [i \in 1..Len(s) |-> LowerTok(s[i])]

\* str(x) of a JSON value: str(None) is the text "None"
Str(v) == IF IsNone(v) THEN <<"None">> ELSE Val(v)

\* str(d.get(key, "")).strip()
GetStripped(d, key) == IF key \in DOMAIN d THEN Strip(Str(d[key])) ELSE <<>>

\* `if x:` on an Optional[str] argument
Truthy(o) == ~IsNone(o) /\ Val(o) # <<>>

\* `x.strip() if x else None`, read where only its truth and text matter
StripOpt(o) == IF Truthy(o) /\ Strip(Val(o)) # <<>> THEN Some(Strip(Val(o))) ELSE None

\* `text or None`
OrNone(text) == IF text # <<>> THEN Some(text) ELSE None

\* d.get(key) is truthy
HasText(d, key) == key \in DOMAIN d /\ ~IsNone(d[key]) /\ Val(d[key]) # <<>>

\* A dict literal whose entries are given as key |-> Option: an entry that is None is
\* left out, an entry <<text>> is the JSON string text
Compact(entries) == [k \in {f \in DOMAIN entries : ~IsNone(entries[f])} |-> entries[k]]

\* dict.pop(key, None)
Pop(d, key) == [k \in DOMAIN d \ {key} |-> d[k]]

\* d[key] = value
Put(d, key, value) == [k \in DOMAIN d \cup {key} |-> IF k = key THEN Some(value) ELSE d[k]]

----------------------------------------------------------------------------
(* template_logic.py: parse_duration_seconds *)

Digits == {"0", "1", "2", "3", "4", "5", "6", "7", "8", "9"}
Units == {"s", "m", "h", "d"}

DigitVal(c) ==
    CASE c = "0" -> 0 [] c = "1" -> 1 [] c = "2" -> 2 [] c = "3" -> 3 [] c = "4" -> 4
      [] c = "5" -> 5 [] c = "6" -> 6 [] c = "7" -> 7 [] c = "8" -> 8 [] c = "9" -> 9

\* unit_seconds, in ms
UnitMs(u) ==
    CASE u = "s" -> 1000 [] u = "m" -> 60000 [] u = "h" -> 3600000 [] u = "d" -> 86400000

\* first index >= i of s that holds no digit (Len(s)+1 if none): the extent of \d+
RECURSIVE DigitsEnd(_, _)
DigitsEnd(s, i) == IF i <= Len(s) /\ s[i] \in Digits THEN DigitsEnd(s, i + 1) ELSE i

\* int of the digits s[i..j-1]
RECURSIVE DigitsInt(_, _, _)
DigitsInt(s, i, j) ==
    IF j <= i THEN 0 ELSE DigitsInt(s, i, j - 1) * 10 + DigitVal(s[j - 1])

\* the digit at i if i < j, else 0
FracDigit(s, i, j) == IF i < j THEN DigitVal(s[i]) ELSE 0

\* thousandths denoted by the fraction digits s[i..j-1] (digits past the third dropped)
FracMs(s, i, j) ==
    FracDigit(s, i, j) * 100 + FracDigit(s, i + 1, j) * 10 + FracDigit(s, i + 2, j)

\* (\d+\.\d+)([smhd]) with the integer digits s[i..j-1], "." at j and fraction digits
\* s[j+1..k-1]: <<index after the match, ms>>, <<0, 0>> if it does not match
ChunkFrac(s, i, j, k) ==
    IF k > j + 1 /\ k <= Len(s) /\ s[k] \in Units
    THEN <<k + 1, DigitsInt(s, i, j) * UnitMs(s[k]) + FracMs(s, j + 1, k) * (UnitMs(s[k]) \div 1000)>>
    ELSE <<0, 0>>

\* the same with the integer digits s[i..j-1] read
ChunkInt(s, i, j) ==
    IF j = i \/ j > Len(s) THEN <<0, 0>>
    ELSE IF s[j] \in Units THEN <<j + 1, DigitsInt(s, i, j) * UnitMs(s[j])>>
    ELSE IF s[j] = "." THEN ChunkFrac(s, i, j, DigitsEnd(s, j + 1))
    ELSE <<0, 0>>

\* One match of DURATION_CHUNKS_PATTERN anchored at i
Chunk(s, i) == ChunkInt(s, i, DigitsEnd(s, i))

AddChunk(ms, rest) == IF rest = -1 THEN -1 ELSE ms + rest

\* Sum over the chunks when they cover s[i..] exactly, -1 otherwise
\* ("".join(match.group(0) for match in matches) != value)
RECURSIVE ChunksFrom(_, _)
ChunksAfter(s, c) == IF c[1] = 0 THEN -1 ELSE AddChunk(c[2], ChunksFrom(s, c[1]))
ChunksFrom(s, i) == IF i > Len(s) THEN 0 ELSE ChunksAfter(s, Chunk(s, i))

DurationTotal(value) == IF value = <<>> THEN -1 ELSE ChunksFrom(value, 1)

\* `if total <= 0: raise`
PositiveTotalOrZero(total) == IF total < 0 THEN -1 ELSE total

PositiveTotal(total) == IF total <= 0 THEN -1 ELSE total

\* parse_duration_seconds(raw, field): the total in ms, or -1 for SystemExit
parse_duration_seconds(raw) == PositiveTotal(DurationTotal(Lower(Strip(raw))))

DEFAULT_REPEAT_EVERY == <<"1", "0", "m">>

----------------------------------------------------------------------------
(* template_logic.py: normalize_template_data, load_template, save_template *)

REQUIRED_TEMPLATE_FIELDS == <<"name", "description", "role_prompt", "instructions">>
ALLOWED_SCOPES == {<<"general">>, <<"specific">>}

\* The error of the loop over REQUIRED_TEMPLATE_FIELDS from field i on, "" if none
RECURSIVE RequiredError(_, _, _)
RequiredError(data, fallback_name, i) ==
    IF i > Len(REQUIRED_TEMPLATE_FIELDS) THEN ""
    ELSE IF REQUIRED_TEMPLATE_FIELDS[i] \notin DOMAIN data
         THEN IF REQUIRED_TEMPLATE_FIELDS[i] = "name" /\ Truthy(fallback_name)
              THEN RequiredError(data, fallback_name, i + 1)
              ELSE "MissingField"
         ELSE IF Strip(Str(data[REQUIRED_TEMPLATE_FIELDS[i]])) = <<>> THEN "EmptyField"
              ELSE RequiredError(data, fallback_name, i + 1)

RequiredValue(data, fallback_name, field) ==
    IF field \in DOMAIN data THEN Strip(Str(data[field])) ELSE Val(fallback_name)

\* `profile is not None and str(profile).strip()`
NormalProfile(data) ==
    IF "profile" \in DOMAIN data /\ ~IsNone(data["profile"]) THEN OrNone(Strip(Str(data["profile"])))
    ELSE None

OrGeneral(scope) == IF scope = <<>> THEN <<"general">> ELSE scope

\* str(data.get("scope", "general")).strip().lower() or "general"
NormalScope(data) ==
    IF "scope" \in DOMAIN data THEN OrGeneral(Lower(Strip(Str(data["scope"])))) ELSE <<"general">>

\* The specific_to entry of the output: kept only under scope specific
NormalSpecificToKeepAlways(scope, specific_to) == OrNone(specific_to)

NormalSpecificTo(scope, specific_to) ==
    IF scope = <<"specific">> THEN OrNone(specific_to) ELSE None

\* The check of template_logic.py:82
DanglingRepeatEveryNever(repeat_for, repeat_every) == FALSE

DanglingRepeatEvery(repeat_for, repeat_every) == repeat_every # <<>> /\ repeat_for = <<>>

\* The first check of normalize_template_data that raises, "" if none
NormalizeError(data, fallback_name, scope, specific_to, repeat_for, repeat_every) ==
    IF RequiredError(data, fallback_name, 1) # "" THEN RequiredError(data, fallback_name, 1)
    ELSE IF scope \notin ALLOWED_SCOPES THEN "InvalidScope"
    ELSE IF scope = <<"specific">> /\ specific_to = <<>> THEN "MissingSpecificTo"
    ELSE IF repeat_for # <<>> /\ parse_duration_seconds(repeat_for) = -1 THEN "InvalidDuration"
    ELSE IF repeat_every # <<>> /\ parse_duration_seconds(repeat_every) = -1 THEN "InvalidDuration"
    ELSE IF DanglingRepeatEvery(repeat_for, repeat_every) THEN "DanglingRepeatEvery"
    ELSE ""

\* The `out` mapping of normalize_template_data
NormalizedOut(data, fallback_name, scope, specific_to, repeat_for, repeat_every) ==
    Compact([name |-> Some(RequiredValue(data, fallback_name, "name")),
              description |-> Some(RequiredValue(data, fallback_name, "description")),
              role_prompt |-> Some(RequiredValue(data, fallback_name, "role_prompt")),
              instructions |-> Some(RequiredValue(data, fallback_name, "instructions")),
              profile |-> NormalProfile(data),
              scope |-> Some(scope),
              specific_to |-> NormalSpecificTo(scope, specific_to),
              repeat_for |-> OrNone(repeat_for),
              repeat_every |-> OrNone(repeat_every)])

Normalized(err, out) == IF err # "" THEN [err |-> err, out |-> <<>>] ELSE [err |-> "", out |-> out]

NormalizeWith(data, fallback_name, scope, specific_to, repeat_for, repeat_every) ==
    Normalized(NormalizeError(data, fallback_name, scope, specific_to, repeat_for, repeat_every),
               NormalizedOut(data, fallback_name, scope, specific_to, repeat_for, repeat_every))

\* normalize_template_data(data, fallback_name): [err |-> "" or the failure, out |-> dict]
normalize_template_data(data, fallback_name) ==
    NormalizeWith(data, fallback_name, NormalScope(data), GetStripped(data, "specific_to"),
                  GetStripped(data, "repeat_for"), GetStripped(data, "repeat_every"))

----------------------------------------------------------------------------
(* template_paths.py *)

TemplateExts == {".json", ".yaml", ".yml"}

TEMPLATE_EXT_TO_FORMAT(ext) == IF ext = ".json" THEN "json" ELSE "yaml"
FORMAT_TO_TEMPLATE_EXT(format) == IF format = "json" THEN ".json" ELSE ".yaml"
DEFAULT_TEMPLATE_FORMAT == "json"

\* Tokens of a name that pathlib reads as a suffix (".x" at the end of a longer name)
SuffixTokens == {".json", ".yaml", ".yml", ".JSON", ".YAML", ".YML", ".txt"}

\* validate_template_name_input: TRUE when the name is rejected
InvalidNameInput(name) == Strip(name) = <<>> \/ \E i \in 1..Len(name) : name[i] = "/"

\* Path(name).suffix.lower()
PathSuffix(name) ==
    IF Len(name) >= 2 /\ name[Len(name)] \in SuffixTokens THEN LowerTok(name[Len(name)]) ELSE ""

\* split_template_name(name): [err, stem, ext] with ext "" when the name has no
\* template extension
split_template_name(name) ==
    IF InvalidNameInput(name) THEN [err |-> "InvalidName", stem |-> <<>>, ext |-> ""]
    ELSE IF PathSuffix(name) \in TemplateExts
         THEN [err |-> "", stem |-> SubSeq(name, 1, Len(name) - 1), ext |-> PathSuffix(name)]
         ELSE [err |-> "", stem |-> name, ext |-> ""]

\* find_template_files_by_stem(root, stem), as the set of the paths found
find_template_files_by_stem(fs, stem) == {<<stem, ext>> : ext \in TemplateExts} \cap DOMAIN fs

Found(path) == [err |-> "", path |-> path]
NoPath(err) == [err |-> err, path |-> <<>>]

ResolveMatchesFirst(matches) ==
    IF matches = {} THEN NoPath("NotFound") ELSE Found(CHOOSE p \in matches : TRUE)

ResolveMatches(matches) ==
    IF matches = {} THEN NoPath("NotFound")
    ELSE IF Cardinality(matches) > 1 THEN NoPath("AmbiguousName")
    ELSE Found(CHOOSE p \in matches : TRUE)

ResolveExistingSplit(fs, sp) ==
    IF sp.err # "" THEN NoPath(sp.err)
    ELSE IF sp.ext # ""
         THEN IF <<sp.stem, sp.ext>> \in DOMAIN fs THEN Found(<<sp.stem, sp.ext>>)
              ELSE NoPath("NotFound")
    ELSE ResolveMatches(find_template_files_by_stem(fs, sp.stem))

\* resolve_existing_template_file(root, name): [err, path]
resolve_existing_template_file(fs, name) == ResolveExistingSplit(fs, split_template_name(name))

ResolveNewSplit(sp, template_format, preserve_extension) ==
    IF sp.err # "" THEN NoPath(sp.err)
    ELSE IF sp.ext # ""
         THEN IF ~IsNone(template_format) /\ Val(template_format) # TEMPLATE_EXT_TO_FORMAT(sp.ext)
              THEN NoPath("FormatConflict")
              ELSE Found(<<sp.stem, sp.ext>>)
    ELSE IF ~IsNone(template_format)
         THEN Found(<<sp.stem, FORMAT_TO_TEMPLATE_EXT(Val(template_format))>>)
    ELSE IF ~IsNone(preserve_extension) THEN Found(<<sp.stem, Val(preserve_extension)>>)
    ELSE Found(<<sp.stem, FORMAT_TO_TEMPLATE_EXT(DEFAULT_TEMPLATE_FORMAT)>>)

\* resolve_new_template_file(root, name, template_format, preserve_extension): [err, path];
\* template_format is an Option of "json"/"yaml", preserve_extension an Option of an ext
resolve_new_template_file(name, template_format, preserve_extension) ==
    ResolveNewSplit(split_template_name(name), template_format, preserve_extension)

\* prompting.py ensure_stem_not_ambiguous(root, stem, target): TRUE when it raises
StemTakenNever(fs, stem, target) == FALSE

StemTakenOtherFormat(fs, stem, target) ==
    \E p \in find_template_files_by_stem(fs, stem) :
        TEMPLATE_EXT_TO_FORMAT(p[2]) # TEMPLATE_EXT_TO_FORMAT(target[2])

StemTaken(fs, stem, target) == \E p \in find_template_files_by_stem(fs, stem) : p # target

\* prompting.py ensure_profile_exists(cfg, name): TRUE when it raises
UnknownProfile(c, name) == name \notin DOMAIN c.profiles

----------------------------------------------------------------------------
(* Command results: [status |-> "ok" or the SystemExit raised, fs |-> the store after] *)

Ok(fs) == [status |-> "ok", fs |-> fs]
Exit(kind, fs) == [status |-> kind, fs |-> fs]

\* path.write_text / Path.unlink
WriteFile(fs, path, mapping) ==
    [p \in DOMAIN fs \cup {path} |-> IF p = path THEN mapping ELSE fs[p]]
Unlink(fs, path) == [p \in DOMAIN fs \ {path} |-> fs[p]]

LoadNormalized(path, n) == [err |-> n.err, path |-> path, data |-> n.out]

LoadResolved(fs, r) ==
    IF r.err # "" THEN [err |-> r.err, path |-> <<>>, data |-> <<>>]
    ELSE LoadNormalized(r.path, normalize_template_data(fs[r.path], Some(r.path[1])))

\* load_template(root, name): [err, path, data]
load_template(fs, name) == LoadResolved(fs, resolve_existing_template_file(fs, name))

SaveNormalizedAnyway(fs, path, data, n) ==
    IF n.err # "" THEN Exit(n.err, WriteFile(fs, path, data)) ELSE Ok(WriteFile(fs, path, n.out))

SaveNormalized(fs, path, data, n) ==
    IF n.err # "" THEN Exit(n.err, fs) ELSE Ok(WriteFile(fs, path, n.out))

\* save_template(path, data): the command's result when this is its last write
save_template(fs, path, data) ==
    SaveNormalized(fs, path, data, normalize_template_data(data, None))

----------------------------------------------------------------------------
(* cmds/templates_manage.py *)

ChosenFormat(format, c) == IF ~IsNone(format) THEN Val(format) ELSE c.default_template_format

CreateData(a, stem, selected_profile, specific_to, repeat_for, repeat_every) ==
    Compact([name |-> Some(stem),
              description |-> Some(Strip(a.description)),
              role_prompt |-> Some(Strip(a.role)),
              instructions |-> Some(Strip(a.instructions)),
              scope |-> Some(a.scope),
              profile |-> selected_profile,
              specific_to |-> IF a.scope = <<"specific">> THEN specific_to ELSE None,
              repeat_for |-> repeat_for,
              repeat_every |-> repeat_every])

CreateAt(fs, c, a, selected_profile, np, stem, specific_to, repeat_for, repeat_every) ==
    IF ~IsNone(selected_profile) /\ UnknownProfile(c, Val(selected_profile))
    THEN Exit("UnknownProfile", fs)
    ELSE IF np.err # "" THEN Exit(np.err, fs)
    ELSE IF StemTaken(fs, stem, np.path) THEN Exit("DuplicateStem", fs)
    ELSE IF np.path \in DOMAIN fs /\ ~a.force THEN Exit("AlreadyExists", fs)
    ELSE IF a.scope = <<"specific">> /\ IsNone(specific_to) THEN Exit("MissingSpecificTo", fs)
    ELSE IF a.scope = <<"general">> /\ ~IsNone(specific_to) THEN Exit("SpecificToWithGeneral", fs)
    ELSE IF ~IsNone(repeat_for) /\ parse_duration_seconds(Val(repeat_for)) = -1
         THEN Exit("InvalidDuration", fs)
    ELSE IF ~IsNone(repeat_every) /\ parse_duration_seconds(Val(repeat_every)) = -1
         THEN Exit("InvalidDuration", fs)
    ELSE IF ~IsNone(repeat_every) /\ IsNone(repeat_for) THEN Exit("DanglingRepeatEvery", fs)
    ELSE save_template(fs, np.path,
             CreateData(a, stem, selected_profile, specific_to, repeat_for, repeat_every))

\* command_create
command_create(fs, c, a) ==
    CreateAt(fs, c, a, StripOpt(a.profile),
             resolve_new_template_file(a.name, Some(ChosenFormat(a.format, c)), None),
             split_template_name(a.name).stem,
             StripOpt(a.specific_to), StripOpt(a.repeat_for), StripOpt(a.repeat_every))

\* data[key] = value.strip() when the flag is given
SetIf(d, key, o) == IF IsNone(o) THEN d ELSE Put(d, key, Strip(Val(o)))

\* data.pop(key, None) when the flag is given
PopIf(d, key, flag) == IF flag THEN Pop(d, key) ELSE d

\* templates_manage.py:99-102
SetScope(d, scope) ==
    IF IsNone(scope) THEN d
    ELSE IF Val(scope) = <<"general">> THEN Pop(Put(d, "scope", Val(scope)), "specific_to")
    ELSE Put(d, "scope", Val(scope))

\* The mapping command_edit has built when it reaches its final checks
\* (templates_manage.py:84-123)
EditedData(data, a) ==
    PopIf(PopIf(PopIf(
        SetIf(SetIf(SetIf(
            PopIf(SetScope(
                PopIf(SetIf(SetIf(SetIf(SetIf(data,
                    "description", a.description),
                    "role_prompt", a.role),
                    "instructions", a.instructions),
                    "profile", IF Truthy(a.profile) THEN a.profile ELSE None),
                    "profile", a.clear_profile),
                a.scope),
                "specific_to", a.clear_specific_to),
            "specific_to", a.specific_to),
            "repeat_for", a.repeat_for),
            "repeat_every", a.repeat_every),
        "repeat_for", a.clear_repeat),
        "repeat_every", a.clear_repeat),
        "repeat_every", a.clear_repeat_every)

\* The `changed` flag of command_edit
EditChanged(data, a) ==
    \/ ~IsNone(a.description) \/ ~IsNone(a.role) \/ ~IsNone(a.instructions)
    \/ Truthy(a.profile)
    \/ (a.clear_profile /\ "profile" \in DOMAIN data)
    \/ ~IsNone(a.scope) \/ a.clear_specific_to \/ ~IsNone(a.specific_to)
    \/ ~IsNone(a.repeat_for) \/ ~IsNone(a.repeat_every)
    \/ a.clear_repeat \/ a.clear_repeat_every

\* The check of templates_manage.py:129
EditDangling(data) == HasText(data, "repeat_every") /\ ~HasText(data, "repeat_for")

EditChecked(fs, c, a, lt, data) ==
    IF a.clear_repeat /\ (~IsNone(a.repeat_for) \/ ~IsNone(a.repeat_every))
    THEN Exit("ClearRepeatConflict", fs)
    ELSE IF Truthy(a.profile) /\ a.clear_profile THEN Exit("ProfileConflict", fs)
    ELSE IF Truthy(a.profile) /\ UnknownProfile(c, Strip(Val(a.profile)))
         THEN Exit("UnknownProfile", fs)
    ELSE IF ~IsNone(a.repeat_for) /\ Strip(Val(a.repeat_for)) = <<>> THEN Exit("EmptyDuration", fs)
    ELSE IF ~IsNone(a.repeat_for) /\ parse_duration_seconds(Val(a.repeat_for)) = -1
         THEN Exit("InvalidDuration", fs)
    ELSE IF ~IsNone(a.repeat_every) /\ Strip(Val(a.repeat_every)) = <<>>
         THEN Exit("EmptyDuration", fs)
    ELSE IF ~IsNone(a.repeat_every) /\ parse_duration_seconds(Val(a.repeat_every)) = -1
         THEN Exit("InvalidDuration", fs)
    ELSE IF ~EditChanged(lt.data, a) THEN Exit("NoUpdates", fs)
    ELSE IF HasText(data, "scope") /\ Val(data["scope"]) = <<"specific">>
            /\ GetStripped(data, "specific_to") = <<>>
         THEN Exit("MissingSpecificTo", fs)
    ELSE IF EditDangling(data) THEN Exit("DanglingRepeatEvery", fs)
    ELSE save_template(fs, lt.path, data)

EditLoaded(fs, c, a, lt) ==
    IF lt.err # "" THEN Exit(lt.err, fs) ELSE EditChecked(fs, c, a, lt, EditedData(lt.data, a))

\* command_edit
command_edit(fs, c, a) == EditLoaded(fs, c, a, load_template(fs, a.name))

----------------------------------------------------------------------------
(* cmds/templates_fileops.py *)

\* templates_fileops.py:32-33
RenameSaved(lt, np, saved) ==
    IF saved.status # "ok" THEN saved
    ELSE IF np.path # lt.path /\ lt.path \in DOMAIN saved.fs THEN Ok(Unlink(saved.fs, lt.path))
    ELSE saved

RenameTo(fs, a, lt, np, target_stem) ==
    IF np.err # "" THEN Exit(np.err, fs)
    ELSE IF StemTaken(fs, target_stem, np.path) THEN Exit("DuplicateStem", fs)
    ELSE IF np.path \in DOMAIN fs /\ np.path # lt.path /\ ~a.force THEN Exit("AlreadyExists", fs)
    ELSE RenameSaved(lt, np, save_template(fs, np.path, Put(lt.data, "name", target_stem)))

RenameLoaded(fs, a, lt) ==
    IF lt.err # "" THEN Exit(lt.err, fs)
    ELSE RenameTo(fs, a, lt, resolve_new_template_file(a.target, a.format, Some(lt.path[2])),
                  split_template_name(a.target).stem)

\* command_rename
command_rename(fs, a) == RenameLoaded(fs, a, load_template(fs, a.source))

CopyTo(fs, a, lt, np, target_stem) ==
    IF np.err # "" THEN Exit(np.err, fs)
    ELSE IF StemTaken(fs, target_stem, np.path) THEN Exit("DuplicateStem", fs)
    ELSE IF np.path \in DOMAIN fs /\ ~a.force THEN Exit("AlreadyExists", fs)
    ELSE save_template(fs, np.path, Put(lt.data, "name", target_stem))

CopyLoaded(fs, a, lt) ==
    IF lt.err # "" THEN Exit(lt.err, fs)
    ELSE CopyTo(fs, a, lt, resolve_new_template_file(a.target, a.format, Some(lt.path[2])),
                split_template_name(a.target).stem)

\* command_copy
command_copy(fs, a) == CopyLoaded(fs, a, load_template(fs, a.source))

DeleteLoaded(fs, lt) == IF lt.err # "" THEN Exit(lt.err, fs) ELSE Ok(Unlink(fs, lt.path))

\* command_delete
command_delete(fs, a) == DeleteLoaded(fs, load_template(fs, a.name))

----------------------------------------------------------------------------
(* ai_utils.py, runner_utils.py, cmds/ai.py *)

Stopwords == {"a", "an", "and", "for", "from", "i", "is", "it", "of", "or", "please", "role",
              "template", "that", "the", "this", "to", "want", "with"}

\* Words of a request that start with a digit (base[0].isdigit())
DigitWords == {"2fa", "3d"}

\* The items of seq that are not in drop, in order
RECURSIVE SelectWords(_, _)
SelectWords(seq, drop) ==
    IF seq = <<>> THEN <<>>
    ELSE IF Head(seq) \in drop THEN SelectWords(Tail(seq), drop)
    ELSE <<Head(seq)>> \o SelectWords(Tail(seq), drop)

\* "-".join(words)
RECURSIVE JoinDash(_)
JoinDash(words) ==
    IF Len(words) <= 1 THEN words ELSE <<Head(words), "-">> \o JoinDash(Tail(words))

\* chosen[:5]
FirstFive(chosen) == SubSeq(chosen, 1, IF Len(chosen) < 5 THEN Len(chosen) ELSE 5)

RolePrefixed(base) == IF Head(base) \in DigitWords THEN <<"role", "-">> \o base ELSE base

NameFromWords(words, filtered) ==
    IF words = <<>> THEN <<"generated-role">>
    ELSE RolePrefixed(JoinDash(FirstFive(IF filtered # <<>> THEN filtered ELSE words)))

\* derive_template_name_from_request(request); the words of the model are short, so the
\* cut at 48 characters never applies
derive_template_name_from_request(request) ==
    NameFromWords(SelectWords(request, {" "}), SelectWords(request, {" "} \cup Stopwords))

\* next_available_template_name(root, base_name), the loop from `suffix` on
RECURSIVE NextAvailableFrom(_, _, _, _)
NextAvailableFrom(fs, base_name, candidate, suffix) ==
    IF find_template_files_by_stem(fs, candidate) = {} THEN candidate
    ELSE NextAvailableFrom(fs, base_name, base_name \o <<"-", ToString(suffix)>>, suffix + 1)

NextAvailableIsBase(fs, base_name) == base_name

next_available_template_name(fs, base_name) == NextAvailableFrom(fs, base_name, base_name, 2)

MaybeMatches(matches) ==
    IF matches = {} THEN [err |-> "", path |-> None]
    ELSE IF Cardinality(matches) > 1 THEN [err |-> "AmbiguousName", path |-> None]
    ELSE [err |-> "", path |-> Some(CHOOSE p \in matches : TRUE)]

MaybeResolveSplit(fs, sp) ==
    IF sp.err # "" THEN [err |-> sp.err, path |-> None]
    ELSE IF sp.ext # ""
         THEN [err |-> "",
               path |-> IF <<sp.stem, sp.ext>> \in DOMAIN fs THEN Some(<<sp.stem, sp.ext>>)
                        ELSE None]
    ELSE MaybeMatches(find_template_files_by_stem(fs, sp.stem))

\* maybe_resolve_existing_template_file(root, name): [err, path] with path None when no
\* file matches
maybe_resolve_existing_template_file(fs, name) == MaybeResolveSplit(fs, split_template_name(name))

\* ai.py:87-92
AiScope(a, g) ==
    IF Truthy(a.scope) THEN Val(a.scope)
    ELSE IF Truthy(a.specific_to) THEN <<"specific">>
    ELSE NormalScope(g)

\* `args.x.strip() if args.x else str(generated.get(key, "")).strip() or None`, as a text
\* that is empty when the result is falsy
AiText(arg, g, key) == IF Truthy(arg) THEN Strip(Val(arg)) ELSE GetStripped(g, key)

\* args.bind_profile or (str(generated.get("profile", "")).strip() or None)
AiBindProfile(a, g) ==
    IF Truthy(a.bind_profile) THEN Val(a.bind_profile) ELSE GetStripped(g, "profile")

\* The mapping command_ai builds from the runner's JSON object g (ai.py:81-115)
AiData(target_stem, g, scope, specific_to, bind_profile, repeat_for, repeat_every) ==
    Compact([name |-> Some(target_stem),
              description |-> Some(GetStripped(g, "description")),
              role_prompt |-> Some(GetStripped(g, "role_prompt")),
              instructions |-> Some(GetStripped(g, "instructions")),
              scope |-> Some(scope),
              specific_to |-> IF scope = <<"specific">> THEN OrNone(specific_to) ELSE None,
              profile |-> OrNone(bind_profile),
              repeat_for |-> OrNone(repeat_for),
              repeat_every |-> OrNone(repeat_every)])

\* ai.py:123-126
AiSavedKeep(create, existing, np, saved) == saved

AiSaved(create, existing, np, saved) ==
    IF saved.status # "ok" THEN saved
    ELSE IF ~create /\ np.path # Val(existing.path) THEN Ok(Unlink(saved.fs, Val(existing.path)))
    ELSE saved

\* ai.py:81-126, from the JSON object on
AiGenerated(fs, c, a, create, existing, np, target_stem, g, scope, specific_to, bind_profile, repeat_for, repeat_every) ==
    IF scope \notin ALLOWED_SCOPES THEN Exit("InvalidScope", fs)
    ELSE IF scope = <<"specific">> /\ specific_to = <<>> THEN Exit("MissingSpecificTo", fs)
    ELSE IF bind_profile # <<>> /\ UnknownProfile(c, bind_profile) THEN Exit("UnknownProfile", fs)
    ELSE IF repeat_for # <<>> /\ parse_duration_seconds(repeat_for) = -1
         THEN Exit("InvalidDuration", fs)
    ELSE IF repeat_every # <<>> /\ parse_duration_seconds(repeat_every) = -1
         THEN Exit("InvalidDuration", fs)
    ELSE IF repeat_every # <<>> /\ repeat_for = <<>> THEN Exit("DanglingRepeatEvery", fs)
    ELSE IF a.dry_run THEN Ok(fs)
    ELSE AiSaved(create, existing, np,
             save_template(fs, np.path,
                 AiData(target_stem, g, scope, specific_to, bind_profile, repeat_for,
                        repeat_every)))

\* ai.py:55-80: the checks on the arguments, then the runner
AiTarget(fs, c, a, env, create, existing, np, target_stem) ==
    IF np.err # "" THEN Exit(np.err, fs)
    ELSE IF create /\ StemTaken(fs, target_stem, np.path) THEN Exit("DuplicateStem", fs)
    ELSE IF ~create /\ np.path \in DOMAIN fs /\ np.path # Val(existing.path)
         THEN Exit("TargetExists", fs)
    ELSE IF Truthy(a.scope) /\ Val(a.scope) = <<"general">> /\ Truthy(a.specific_to)
         THEN Exit("SpecificToWithGeneral", fs)
    ELSE IF Truthy(a.repeat_every) /\ ~Truthy(a.repeat_for) THEN Exit("DanglingRepeatEvery", fs)
    ELSE IF Truthy(a.repeat_for) /\ parse_duration_seconds(Val(a.repeat_for)) = -1
         THEN Exit("InvalidDuration", fs)
    ELSE IF Truthy(a.repeat_every) /\ parse_duration_seconds(Val(a.repeat_every)) = -1
         THEN Exit("InvalidDuration", fs)
    ELSE IF ~env.found THEN Exit("RunnerNotFound", fs)
    ELSE IF env.returncode # 0 THEN Exit("GenerationFailed", fs)
    ELSE IF IsNone(env.generated) THEN Exit("NoJsonObject", fs)
    ELSE AiGenerated(fs, c, a, create, existing, np, target_stem, Val(env.generated),
             AiScope(a, Val(env.generated)),
             AiText(a.specific_to, Val(env.generated), "specific_to"),
             AiBindProfile(a, Val(env.generated)),
             AiText(a.repeat_for, Val(env.generated), "repeat_for"),
             AiText(a.repeat_every, Val(env.generated), "repeat_every"))

\* ai.py:43-58: create or update
AiResolved(fs, c, a, env, template_name, existing) ==
    IF existing.err # "" THEN Exit(existing.err, fs)
    ELSE IF IsNone(existing.path)
         THEN AiTarget(fs, c, a, env, TRUE, existing,
                  resolve_new_template_file(template_name, Some(ChosenFormat(a.format, c)), None),
                  split_template_name(template_name).stem)
    ELSE IF normalize_template_data(fs[Val(existing.path)], Some(Val(existing.path)[1])).err # ""
         THEN Exit(normalize_template_data(fs[Val(existing.path)],
                                           Some(Val(existing.path)[1])).err, fs)
    ELSE AiTarget(fs, c, a, env, FALSE, existing,
             resolve_new_template_file(template_name, a.format, Some(Val(existing.path)[2])),
             split_template_name(template_name).stem)

AiNamed(fs, c, a, env, template_name) ==
    IF Strip(a.request) = <<>> THEN Exit("EmptyRequest", fs)
    ELSE IF UnknownProfile(c, IF Truthy(a.runner_profile) THEN Val(a.runner_profile)
                              ELSE c.default_profile)
         THEN Exit("ProfileNotFound", fs)
    ELSE AiResolved(fs, c, a, env, template_name,
                    maybe_resolve_existing_template_file(fs, template_name))

\* command_ai; env is what the runner does: [found, returncode, generated], generated the
\* Option of the JSON object extract_json_object finds in its output
command_ai(fs, c, a, env) ==
    AiNamed(fs, c, a, env,
            IF Truthy(a.name) THEN Strip(Val(a.name))
            ELSE next_available_template_name(fs, derive_template_name_from_request(a.request)))

----------------------------------------------------------------------------
(* app_constants.py, cmds/templates_meta.py: the state `init` leaves *)

DEFAULT_PROFILE_NAME == <<"default">>

DEFAULT_CONFIG ==
    [default_profile |-> DEFAULT_PROFILE_NAME,
     default_template_format |-> DEFAULT_TEMPLATE_FORMAT,
     profiles |-> (DEFAULT_PROFILE_NAME :>
                     [command |-> <<"codex">>, args |-> <<>>, prompt_mode |-> "stdin",
                      prompt_flag |-> <<"--prompt">>])]

StarterNames == <<"planning", "testing", "review">>

STARTER_TEMPLATES(name) ==
    CASE name = "planning" ->
           [description |-> <<"Plan implementation work in clear, testable steps.">>,
            role_prompt |-> <<"You are a planning specialist.">>,
            instructions |-> <<"Output a short execution plan with risks, assumptions, and checkpoints.">>]
      [] name = "testing" ->
           [description |-> <<"Design and implement targeted tests for reliability.">>,
            role_prompt |-> <<"You are a testing specialist.">>,
            instructions |-> <<"Prioritize high-signal tests first.">>]
      [] name = "review" ->
           [description |-> <<"Perform code review with findings-first output.">>,
            role_prompt |-> <<"You are a code reviewer.">>,
            instructions |-> <<"List findings ordered by severity with file/line references.">>]

\* The loop of command_init over STARTER_TEMPLATES, from starter i on
StarterData(name, t) ==
    Compact([name |-> Some(<<name>>),
              description |-> Some(t.description),
              role_prompt |-> Some(t.role_prompt),
              instructions |-> Some(t.instructions),
              profile |-> Some(DEFAULT_PROFILE_NAME),
              scope |-> Some(<<"general">>)])

RECURSIVE SaveStarters(_, _)
SaveStarters(fs, i) ==
    IF i > Len(StarterNames) THEN fs
    ELSE SaveStarters(
             save_template(fs,
                 resolve_new_template_file(<<StarterNames[i]>>, Some(DEFAULT_TEMPLATE_FORMAT),
                                           None).path,
                 StarterData(StarterNames[i], STARTER_TEMPLATES(StarterNames[i]))).fs,
             i + 1)

\* command_init on a fresh project: the store it writes
command_init(fs) == SaveStarters(fs, 1)


----------------------------------------------------------------------------
(* prompting.py: parse_vars, render_text_with_vars, build_prompt *)

\* Index of the first "=" of item from i on, 0 if there is none
RECURSIVE FirstEq(_, _)
FirstEq(item, i) ==
    IF i > Len(item) THEN 0 ELSE IF item[i] = "=" THEN i ELSE FirstEq(item, i + 1)

\* out[key] = value for one item whose first "=" is at eq (0: none)
VarsPut(out, item, eq) ==
    IF out.err # "" THEN out
    ELSE IF eq = 0 THEN [err |-> "InvalidVar", vars |-> out.vars]
    ELSE IF Strip(SubSeq(item, 1, eq - 1)) = <<>> THEN [err |-> "InvalidVar", vars |-> out.vars]
    ELSE [err |-> "",
          vars |-> [k \in DOMAIN out.vars \cup {Strip(SubSeq(item, 1, eq - 1))} |->
                       IF k = Strip(SubSeq(item, 1, eq - 1))
                       THEN SubSeq(item, eq + 1, Len(item))
                       ELSE out.vars[k]]]

\* The loop of parse_vars over items[i..], `out` being what the items before i gave
RECURSIVE ParseVarsFrom(_, _, _)
ParseVarsFrom(items, i, out) ==
    IF i > Len(items) THEN out
    ELSE ParseVarsFrom(items, i + 1, VarsPut(out, items[i], FirstEq(items[i], 1)))

\* parse_vars(items): [err, vars] with vars the dict key -> value
parse_vars(items) == ParseVarsFrom(items, 1, [err |-> "", vars |-> <<>>])

\* group(1) of VAR_PATTERN on one token, <<>> when the token is no placeholder
PlaceholderKey(tok) ==
    CASE tok = "{{ticket}}" -> <<"ticket">>
      [] tok = "{{ task }}" -> <<"task">>
      [] tok = "{{repo}}" -> <<"repo">>
      [] OTHER -> <<>>

\* The keys of base_vars in build_prompt
BaseVarKeys ==
    {<<"task">>, <<"extra">>, <<"template">>, <<"description">>, <<"profile">>, <<"scope">>,
     <<"specific_to">>, <<"root">>}

\* The `missing` set of render_text_with_vars(text, variables), keys being the variables' keys
MissingIn(text, keys) == {PlaceholderKey(text[i]) : i \in 1..Len(text)} \ ({<<>>} \cup keys)

\* The `missing` set of build_prompt
PromptMissing(template, task, extra, user_keys) ==
    MissingIn(Val(template["role_prompt"]), BaseVarKeys \cup user_keys)
    \cup MissingIn(Val(template["instructions"]), BaseVarKeys \cup user_keys)
    \cup MissingIn(Strip(task), BaseVarKeys \cup user_keys)
    \cup (IF Truthy(extra) THEN MissingIn(Strip(Val(extra)), BaseVarKeys \cup user_keys) ELSE {})

----------------------------------------------------------------------------
(* cmds/run.py: command_run *)

\* str(template.get(key, "")).strip() or None
TemplateText(template, key) == OrNone(GetStripped(template, key))

\* run.py:50-51: args.x.strip() if args.x else the template's default
CadenceValue(arg, template_default) ==
    IF Truthy(arg) THEN Some(Strip(Val(arg))) ELSE template_default

\* run.py:29 and config_ops.py:83
SelectedProfileTemplateFirst(c, a, template) ==
    IF Truthy(TemplateText(template, "profile")) THEN Val(TemplateText(template, "profile"))
    ELSE IF Truthy(a.profile) THEN Val(a.profile)
    ELSE c.default_profile

SelectedProfile(c, a, template) ==
    IF Truthy(a.profile) THEN Val(a.profile)
    ELSE IF Truthy(TemplateText(template, "profile")) THEN Val(TemplateText(template, "profile"))
    ELSE c.default_profile

\* The name command_run passes to load_runner_profile once its template is loaded
RunSelected(c, a, lt) == IF lt.err # "" THEN None ELSE Some(SelectedProfile(c, a, lt.data))

\* What command_run has decided when it reaches the runner or ends before it
RunFail(err) ==
    [pc |-> "failed", mode |-> "", err |-> err, repeat_for_seconds |-> 0,
     repeat_every_seconds |-> 0]
RunPlan(pc, mode, rf, re) ==
    [pc |-> pc, mode |-> mode, err |-> "", repeat_for_seconds |-> rf,
     repeat_every_seconds |-> re]

\* run.py:62, 65: parse_duration_seconds(value) if value else None, None read as 0
DurationOrNone(value) == IF Truthy(value) THEN parse_duration_seconds(Val(value)) ELSE 0

\* run.py:63-64
EveryValue(repeat_for_value, repeat_every_value) ==
    IF Truthy(repeat_for_value) /\ ~Truthy(repeat_every_value) THEN Some(DEFAULT_REPEAT_EVERY)
    ELSE repeat_every_value

\* run.py:62-80
RunTimedNoDry(a, repeat_for, repeat_every) ==
    IF repeat_for = -1 \/ repeat_every = -1 THEN RunFail("InvalidDuration")
    ELSE IF repeat_for = 0 THEN RunPlan("single", "single", repeat_for, repeat_every)
    ELSE RunPlan("running", "repeat", repeat_for, repeat_every)

RunTimed(a, repeat_for, repeat_every) ==
    IF repeat_for = -1 \/ repeat_every = -1 THEN RunFail("InvalidDuration")
    ELSE IF a.dry_run THEN RunPlan("done", "dry", repeat_for, repeat_every)
    ELSE IF repeat_for = 0 THEN RunPlan("single", "single", repeat_for, repeat_every)
    ELSE RunPlan("running", "repeat", repeat_for, repeat_every)

\* The check of run.py:55
EveryNeedsForNever(repeat_for_value, repeat_every_value) == FALSE

EveryNeedsFor(repeat_for_value, repeat_every_value) ==
    Truthy(repeat_every_value) /\ ~Truthy(repeat_for_value)

\* The check of run.py:53
MaxRunsInvalidNever(max_runs) == FALSE

MaxRunsInvalid(max_runs) == ~IsNone(max_runs) /\ Val(max_runs) <= 0

\* run.py:53-60
RunCadence(a, repeat_for_value, repeat_every_value) ==
    IF MaxRunsInvalid(a.max_runs) THEN RunFail("MaxRunsNotPositive")
    ELSE IF EveryNeedsFor(repeat_for_value, repeat_every_value)
         THEN RunFail("RepeatEveryRequiresRepeatFor")
    ELSE IF ~IsNone(a.max_runs) /\ ~Truthy(repeat_for_value)
         THEN RunFail("MaxRunsRequiresRepeatFor")
    ELSE IF a.continue_on_error /\ ~Truthy(repeat_for_value)
         THEN RunFail("ContinueOnErrorRequiresRepeatFor")
    ELSE RunTimed(a, DurationOrNone(repeat_for_value),
                  DurationOrNone(EveryValue(repeat_for_value, repeat_every_value)))

\* run.py:25-51
RunLoaded(c, a, lt, pv) ==
    IF lt.err # "" THEN RunFail(lt.err)
    ELSE IF UnknownProfile(c, SelectedProfile(c, a, lt.data)) THEN RunFail("ProfileNotFound")
    ELSE IF pv.err # "" THEN RunFail(pv.err)
    ELSE IF a.strict_vars /\ PromptMissing(lt.data, a.task, a.extra, DOMAIN pv.vars) # {}
         THEN RunFail("MissingVariables")
    ELSE RunCadence(a, CadenceValue(a.repeat_for, TemplateText(lt.data, "repeat_for")),
                    CadenceValue(a.repeat_every, TemplateText(lt.data, "repeat_every")))

\* command_run up to its first runner invocation (run.py:21-85)
command_run(fs, c, a) == RunLoaded(c, a, load_template(fs, a.name), parse_vars(a.var))

\* run.py:94-95
NextLastNonzeroReset(last, code) == code

NextLastNonzero(last, code) == IF code # 0 THEN code ELSE last

\* run.py:94, 96: the run ends the scheduler
FailFastNever(code, continue_on_error) == FALSE

FailFast(code, continue_on_error) == code # 0 /\ ~continue_on_error

\* run.py:99
MaxRunsReachedLate(index, max_runs) == ~IsNone(max_runs) /\ index > Val(max_runs)

MaxRunsReachedUnset(index, max_runs) == IsNone(max_runs) \/ index >= Val(max_runs)

MaxRunsReached(index, max_runs) == ~IsNone(max_runs) /\ index >= Val(max_runs)

\* run.py:103
OutOfTimeLate(remaining, every) == remaining < 0

OutOfTimeStrict(remaining, every) == remaining <= 0 \/ every >= remaining

OutOfTime(remaining, every) == remaining <= 0 \/ every > remaining

----------------------------------------------------------------------------
(* The commands as actions.  A store command runs to completion in one step; *)
(* the run command is cut where it blocks: on the runner and in time.sleep.  *)

Create(a) ==
    \E r \in {command_create(files, cfg, a)} :
        /\ files' = r.fs
        /\ lastCmd' = "create"
        /\ lastStatus' = r.status
        /\ UNCHANGED <<cfg, runVars, callVars>>

Edit(a) ==
    \E r \in {command_edit(files, cfg, a)} :
        /\ files' = r.fs
        /\ lastCmd' = "edit"
        /\ lastStatus' = r.status
        /\ UNCHANGED <<cfg, runVars, callVars>>

Rename(a) ==
    \E r \in {command_rename(files, a)} :
        /\ files' = r.fs
        /\ lastCmd' = "rename"
        /\ lastStatus' = r.status
        /\ UNCHANGED <<cfg, runVars, callVars>>

Copy(a) ==
    \E r \in {command_copy(files, a)} :
        /\ files' = r.fs
        /\ lastCmd' = "copy"
        /\ lastStatus' = r.status
        /\ UNCHANGED <<cfg, runVars, callVars>>

Delete(a) ==
    \E r \in {command_delete(files, a)} :
        /\ files' = r.fs
        /\ lastCmd' = "delete"
        /\ lastStatus' = r.status
        /\ UNCHANGED <<cfg, runVars, callVars>>

Ai(a, env) ==
    \E r \in {command_ai(files, cfg, a, env)} :
        /\ files' = r.fs
        /\ lastCmd' = "ai"
        /\ lastStatus' = r.status
        /\ UNCHANGED <<cfg, runVars, callVars>>

\* command_run from its start to the first runner invocation, or to its end when it
\* ends before (run.py:21-85)
RunCommand(a) ==
    /\ runPc = "idle"
    /\ \E p \in {command_run(files, cfg, a)} :
        /\ runPc' = p.pc
        /\ runMode' = p.mode
        /\ runError' = p.err
        /\ runResult' = IF p.pc = "done" THEN Some(0) ELSE None
        /\ end_time' = IF p.pc = "running" THEN now + p.repeat_for_seconds ELSE 0
        /\ repeat_every_seconds' = p.repeat_every_seconds
        /\ run_index' = IF p.pc = "running" THEN 1 ELSE 0
    /\ runArgs' = a
    /\ selected_name' = RunSelected(cfg, a, load_template(files, a.name))
    /\ UNCHANGED <<now, last_nonzero, codes, ends, sleeps, storeVars, callVars>>

\* run.py:79: the only runner invocation of single-run mode returns
SingleExit(code) ==
    /\ runPc = "single"
    /\ codes' = Append(codes, code)
    /\ runResult' = Some(code)
    /\ runPc' = "done"
    /\ UNCHANGED <<runArgs, selected_name, runMode, now, end_time, repeat_every_seconds, run_index,
                   last_nonzero, ends, sleeps, runError, storeVars, callVars>>

\* run.py:86-107: run number run_index exits with `code` after `duration` ms; the loop
\* returns, breaks, or calls time.sleep
RunnerExit(code, duration) ==
    /\ runPc = "running"
    /\ now' = now + duration
    /\ codes' = Append(codes, code)
    /\ ends' = Append(ends, now')
    /\ last_nonzero' = NextLastNonzero(last_nonzero, code)
    /\ IF FailFast(code, runArgs.continue_on_error)
       THEN /\ runPc' = "done"
            /\ runResult' = Some(code)
            /\ sleeps' = sleeps
       ELSE IF \/ MaxRunsReached(run_index, runArgs.max_runs)
               \/ OutOfTime(end_time - now', repeat_every_seconds)
            THEN /\ runPc' = "done"
                 /\ runResult' = Some(last_nonzero')
                 /\ sleeps' = sleeps
            ELSE /\ runPc' = "sleeping"
                 /\ runResult' = runResult
                 /\ sleeps' = Append(sleeps, repeat_every_seconds)
    /\ UNCHANGED <<runArgs, selected_name, runMode, end_time, repeat_every_seconds, run_index, runError,
                   storeVars, callVars>>

\* run.py:107, 84: time.sleep returns `lag` ms late and the next run starts
SleepDone(lag) ==
    /\ runPc = "sleeping"
    /\ now' = now + repeat_every_seconds + lag
    /\ run_index' = run_index + 1
    /\ runPc' = "running"
    /\ UNCHANGED <<runArgs, selected_name, runMode, end_time, repeat_every_seconds, last_nonzero, codes,
                   ends, sleeps, runResult, runError, storeVars, callVars>>

\* runner_utils.py:35-48: run_runner_process raises SystemExit instead of running
RunnerUnavailable(kind) ==
    /\ runPc \in {"single", "running"}
    /\ runPc' = "failed"
    /\ runError' = kind
    /\ UNCHANGED <<runArgs, selected_name, runMode, now, end_time, repeat_every_seconds, run_index,
                   last_nonzero, codes, ends, sleeps, runResult, storeVars, callVars>>

----------------------------------------------------------------------------
(* Inputs *)

D1 == <<"Bug triage role">>
R1 == <<"You triage issues.">>
I1 == <<"Classify severity.">>
Svc == <<"checkout-service">>
Blank == <<" ">>
Dur3s == <<"3", "s">>
Dur1s == <<"1", "s">>
DurBad == <<"s", "o", "o", "n">>
Ghost == <<"ghost">>

FormatOpts == {None, Some("json"), Some("yaml")}

\* Names given on the command line when the file-level behaviour is exercised
PathNames ==
    {<<"planning">>, <<"triage">>, <<"triage", ".yaml">>, <<"planning", ".yml">>,
     <<"triage", ".JSON">>, <<"notes", "/", "triage">>}

CreatePathArgs ==
    [name : PathNames, description : {D1}, role : {R1}, instructions : {I1},
     profile : {None}, scope : {<<"general">>}, specific_to : {None},
     repeat_for : {None, Some(DurBad)}, repeat_every : {None},
     format : FormatOpts, force : BOOLEAN]

MovePathArgs == [source : PathNames, target : PathNames, format : FormatOpts, force : BOOLEAN]

DeletePathArgs == [name : PathNames]

\* 1 for a flag that is given, 0 otherwise
Given(o) == IF IsNone(o) THEN 0 ELSE 1
Flag(b) == IF b THEN 1 ELSE 0

\* Arguments when the contents of the templates are exercised
CreateContentArgs ==
    [name : {<<"triage">>}, description : {D1}, role : {R1}, instructions : {I1},
     profile : {None}, scope : {<<"general">>, <<"specific">>},
     specific_to : {None, Some(Svc)},
     repeat_for : {None, Some(Dur3s)}, repeat_every : {None, Some(Dur1s)},
     format : {None}, force : BOOLEAN]

EditFlags(a) ==
    Given(a.description) + Given(a.role) + Given(a.instructions) + Given(a.profile)
    + Flag(a.clear_profile) + Given(a.scope) + Flag(a.clear_specific_to) + Given(a.specific_to)
    + Given(a.repeat_for) + Given(a.repeat_every) + Flag(a.clear_repeat)
    + Flag(a.clear_repeat_every)

EditContentArgs ==
    {a \in [name : {<<"triage">>}, description : {None}, role : {None}, instructions : {None},
            profile : {None}, clear_profile : {FALSE},
            scope : {None, Some(<<"general">>), Some(<<"specific">>)},
            clear_specific_to : BOOLEAN, specific_to : {None, Some(Svc), Some(Blank)},
            repeat_for : {None, Some(Dur3s), Some(Blank), Some(DurBad)},
            repeat_every : {None, Some(Dur1s), Some(Blank)},
            clear_repeat : BOOLEAN, clear_repeat_every : BOOLEAN] :
        EditFlags(a) <= MaxFlags}

MoveContentArgs ==
    [source : {<<"triage">>, <<"notes">>}, target : {<<"triage">>, <<"notes">>},
     format : {None}, force : BOOLEAN]

DeleteContentArgs == [name : {<<"triage">>, <<"notes">>}]

AiFlags(a) ==
    Given(a.scope) + Given(a.specific_to) + Given(a.repeat_for) + Given(a.repeat_every)
    + Flag(a.dry_run)

AiContentArgs ==
    {a \in [request : {<<"triage", " ", "bugs">>}, name : {Some(<<"triage">>)},
            runner_profile : {None}, bind_profile : {None},
            scope : {None, Some(<<"general">>)}, specific_to : {None, Some(Svc)},
            repeat_for : {None, Some(Dur3s)}, repeat_every : {None, Some(Dur1s)},
            format : {None}, dry_run : BOOLEAN] :
        AiFlags(a) <= MaxFlags}

\* JSON objects the runner may print for ai
GeneratedObjects ==
    {Compact([description |-> Some(D1), role_prompt |-> Some(R1),
           instructions |-> Some(I1), scope |-> sc, specific_to |-> st,
           repeat_for |-> cadence[1], repeat_every |-> cadence[2]]) :
        sc \in {None, Some(<<"SPECIFIC">>)},
        st \in {None, Some(Svc)},
        cadence \in {<<None, None>>, <<Some(Dur3s), Some(Dur1s)>>, <<None, Some(Dur1s)>>}}

AiEnvs ==
    {[found |-> FALSE, returncode |-> 0, generated |-> None],
     [found |-> TRUE, returncode |-> 1, generated |-> None],
     [found |-> TRUE, returncode |-> 0, generated |-> None]}
    \cup {[found |-> TRUE, returncode |-> 0, generated |-> Some(g)] : g \in GeneratedObjects}

\* A template with a cadence of its own, one with a window only
SoakArgs ==
    [name |-> <<"soak">>, description |-> D1, role |-> R1, instructions |-> I1,
     profile |-> None, scope |-> <<"general">>, specific_to |-> None,
     repeat_for |-> Some(Dur3s), repeat_every |-> Some(Dur1s), format |-> None,
     force |-> FALSE]
NightlyArgs ==
    [name |-> <<"nightly">>, description |-> D1, role |-> R1, instructions |-> I1,
     profile |-> None, scope |-> <<"general">>, specific_to |-> None,
     repeat_for |-> Some(Dur3s), repeat_every |-> None, format |-> None, force |-> FALSE]

RunFlags(a) ==
    Given(a.profile) + Flag(a.var # <<>>) + Flag(a.strict_vars) + Given(a.repeat_for)
    + Given(a.repeat_every) + Given(a.max_runs) + Flag(a.continue_on_error)
    + Flag(a.dry_run)

RunArgSet ==
    {a \in [name : {<<"planning">>, <<"soak">>, <<"nightly">>, <<"ghost">>},
            task : {<<"Fix", " ", "{{ticket}}">>}, extra : {None},
            profile : {None, Some(Ghost)},
            var : {<<>>, << <<"ticket", "=", "42">> >>, << <<"ticket">> >>},
            strict_vars : BOOLEAN,
            repeat_for : {None, Some(Dur3s), Some(Blank), Some(DurBad)},
            repeat_every : {None, Some(Dur1s), Some(Blank)},
            max_runs : {None} \cup {Some(n) : n \in -1..MaxRunsArg},
            continue_on_error : BOOLEAN, dry_run : BOOLEAN] :
        RunFlags(a) <= MaxFlags}

\* What the environment does to a run: exit codes of the runner, how long a run takes,
\* how late time.sleep returns (ms)
ExitCodes == {0, 1, 2}
RunDurations == {0, 1000, 2000, 2500}
SleepLags == {0, 500}
RunnerErrors == {"RunnerNotFound", "RunnerFailedToExecute"}

----------------------------------------------------------------------------
(* Specifications *)

RunIdle ==
    /\ runPc = "idle"
    /\ runArgs = <<>>
    /\ selected_name = None
    /\ runMode = ""
    /\ now = 0
    /\ end_time = 0
    /\ repeat_every_seconds = 0
    /\ run_index = 0
    /\ last_nonzero = 0
    /\ codes = <<>>
    /\ ends = <<>>
    /\ sleeps = <<>>
    /\ runResult = None
    /\ runError = ""

\* No function call is under study
CallIdle == input = <<>> /\ output = <<>> /\ stage = "none"

\* A project right after `codexflow init`
Init ==
    /\ files = command_init(<<>>)
    /\ cfg = DEFAULT_CONFIG
    /\ lastCmd = "init"
    /\ lastStatus = "ok"
    /\ RunIdle
    /\ CallIdle

\* File-level behaviour of the store: names, extensions, --format, --force
Next ==
    \/ \E a \in CreatePathArgs : Create(a)
    \/ \E a \in MovePathArgs : Rename(a)
    \/ \E a \in MovePathArgs : Copy(a)
    \/ \E a \in DeletePathArgs : Delete(a)

Spec == Init /\ [][Next]_vars

\* Contents of the templates the store commands write
ContentNext ==
    \/ \E a \in CreateContentArgs : Create(a)
    \/ \E a \in EditContentArgs : Edit(a)
    \/ \E a \in AiContentArgs, env \in AiEnvs : Ai(a, env)
    \/ \E a \in MoveContentArgs : Rename(a)
    \/ \E a \in MoveContentArgs : Copy(a)
    \/ \E a \in DeleteContentArgs : Delete(a)

ContentSpec == Init /\ [][ContentNext]_vars

\* The project after init, `create soak --repeat-for 3s --repeat-every 1s` and
\* `create nightly --repeat-for 3s`
RunInit ==
    /\ files = command_create(command_create(command_init(<<>>), DEFAULT_CONFIG, SoakArgs).fs,
                              DEFAULT_CONFIG, NightlyArgs).fs
    /\ cfg = DEFAULT_CONFIG
    /\ lastCmd = "create"
    /\ lastStatus = "ok"
    /\ RunIdle
    /\ CallIdle

\* One invocation of the run command
RunNext ==
    \/ \E a \in RunArgSet : RunCommand(a)
    \/ \E code \in ExitCodes : SingleExit(code)
    \/ \E code \in ExitCodes, duration \in RunDurations : RunnerExit(code, duration)
    \/ \E lag \in SleepLags : SleepDone(lag)
    \/ \E kind \in RunnerErrors : RunnerUnavailable(kind)

RunSpec == RunInit /\ [][RunNext]_vars

\* The scheduler when every run exits and every sleep returns
FairRunSpec ==
    /\ RunInit
    /\ [][RunNext]_vars
    /\ WF_vars(\E code \in ExitCodes, duration \in RunDurations : RunnerExit(code, duration))
    /\ WF_vars(\E lag \in SleepLags : SleepDone(lag))

----------------------------------------------------------------------------
(* Properties of the template store *)

OneFilePerStem == \A p \in DOMAIN files : \A q \in DOMAIN files : p[1] = q[1] => p = q

\* C1: starting from a store with at most one file per stem, after any sequence of
\* create, rename and copy commands (any names, --format and --force, succeeding or
\* failing) the store still has at most one file per stem.
StemUniqueAfterCommands == OneFilePerStem

\* A rename has moved planning.json to triage.yaml: a new stem, in another format
StemUniqueWitness ==
    /\ lastCmd = "rename"
    /\ lastStatus = "ok"
    /\ <<<<"triage">>, ".yaml">> \in DOMAIN files
    /\ find_template_files_by_stem(files, <<"planning">>) = {}

\* A dict literal from key |-> Option of a JSON value: None leaves the key out,
\* <<None>> is null, <<<<text>>>> a string
Raw(entries) == [k \in {f \in DOMAIN entries : ~IsNone(entries[f])} |-> Val(entries[k])]

\* Mappings as load_mapping_file may return them from a hand-written file
RawRecords ==
    {Raw([name |-> nm, description |-> Some(Some(D1)), role_prompt |-> Some(Some(R1)),
          instructions |-> Some(Some(I1)), scope |-> sc, specific_to |-> st,
          repeat_for |-> rf, repeat_every |-> re]) :
        nm \in {None, Some(Some(<<"triage">>))},
        sc \in {None, Some(None), Some(Some(<<"general">>)), Some(Some(<<"General">>)),
                Some(Some(<<"specific">>)), Some(Some(<<" ", "SPECIFIC">>)),
                Some(Some(<<"team">>)), Some(Some(Blank))},
        st \in {None, Some(None), Some(Some(Svc)), Some(Some(Blank))},
        rf \in {None, Some(None), Some(Some(Dur3s)), Some(Some(DurBad))},
        re \in {None, Some(Some(Dur1s)), Some(Some(Blank))}}

\* The records normalize_template_data returns for RawRecords
NormalizedRecords ==
    {n.out : n \in {m \in {normalize_template_data(raw, fb) :
                               raw \in RawRecords, fb \in {None, Some(<<"fallback">>)}} :
                        m.err = ""}}

HasSpecificTo(t) == "specific_to" \in DOMAIN t /\ ~IsNone(t["specific_to"]) /\ Val(t["specific_to"]) # <<>>

ScopeIffSpecificTo(t) ==
    /\ (t["scope"] = Some(<<"specific">>)) <=> HasSpecificTo(t)
    /\ t["scope"] = Some(<<"general">>) => "specific_to" \notin DOMAIN t

\* C9: in every record normalize returns, and so in every template file written by
\* create, edit, rename, copy or ai, scope is specific if and only if specific_to is
\* present and non-empty; a record with scope general never carries specific_to.
ScopeMatchesSpecificTo ==
    /\ \A t \in NormalizedRecords : ScopeIffSpecificTo(t)
    /\ \A p \in DOMAIN files : ScopeIffSpecificTo(files[p])

\* An edit has just made triage specific to a service
ScopeWitness ==
    /\ lastCmd = "edit"
    /\ lastStatus = "ok"
    /\ <<<<"triage">>, ".json">> \in DOMAIN files
    /\ files[<<<<"triage">>, ".json">>]["scope"] = Some(<<"specific">>)
    /\ files[<<<<"triage">>, ".json">>]["specific_to"] = Some(Svc)
    /\ \E t \in NormalizedRecords : t["scope"] = Some(<<"specific">>)

EveryImpliesFor(t) == "repeat_every" \in DOMAIN t => "repeat_for" \in DOMAIN t

\* C10: after any sequence of create, edit (with --clear-repeat, --clear-repeat-every,
\* --repeat-for, --repeat-every), rename, copy and ai commands, every persisted template
\* that has repeat_every also has repeat_for, as has every record normalize returns: a
\* command that would leave repeat_every without repeat_for fails instead of writing.
EveryHasFor ==
    /\ \A t \in NormalizedRecords : EveryImpliesFor(t)
    /\ \A p \in DOMAIN files : EveryImpliesFor(files[p])

\* An edit that would have left repeat_every alone has failed; triage has no cadence
EveryHasForWitness ==
    /\ lastCmd = "edit"
    /\ lastStatus = "DanglingRepeatEvery"
    /\ <<<<"triage">>, ".json">> \in DOMAIN files
    /\ "repeat_every" \notin DOMAIN files[<<<<"triage">>, ".json">>]
    /\ \E p \in DOMAIN files : "repeat_every" \in DOMAIN files[p]

----------------------------------------------------------------------------
(* Properties of the scheduler *)

\* The template the run command names, as load_template returns it
RunTemplate == load_template(files, runArgs.name).data

\* A flag that carries a text
CliText(o) == Truthy(o) /\ Strip(Val(o)) # <<>>

\* repeat_for / repeat_every in effect: given on the command line or the template's default
RepeatForInEffect == CliText(runArgs.repeat_for) \/ "repeat_for" \in DOMAIN RunTemplate
RepeatEveryInEffect == CliText(runArgs.repeat_every) \/ "repeat_every" \in DOMAIN RunTemplate

\* The SystemExits of run.py:53-60
InvalidCadence ==
    {"MaxRunsNotPositive", "RepeatEveryRequiresRepeatFor", "MaxRunsRequiresRepeatFor",
     "ContinueOnErrorRequiresRepeatFor"}

\* The run command has loaded its template, selected its profile and built its prompt
\* (run.py:25-46), and the runner command exists
CadenceReached == runPc # "idle" /\ runError \in InvalidCadence \cup {"", "InvalidDuration"}

\* C2: in repeat mode with continueOnError=false, a run that exits nonzero is the last
\* one: the scheduler has terminated returning exactly that code, with no sleep and no
\* run after it, whatever maxRuns and the remaining time are.
FailFastStops ==
    (runMode = "repeat" /\ ~runArgs.continue_on_error) =>
        \A i \in 1..Len(codes) :
            codes[i] # 0 =>
                /\ i = Len(codes)
                /\ runPc = "done"
                /\ runResult = Some(codes[i])
                /\ Len(sleeps) = i - 1

\* The first run exits 2 with runs to spare under maxRuns and time left for a sleep
FailFastWitness ==
    /\ runMode = "repeat"
    /\ ~runArgs.continue_on_error
    /\ runPc = "done"
    /\ Len(codes) = 1
    /\ codes[1] = 2
    /\ ~IsNone(runArgs.max_runs)
    /\ run_index < Val(runArgs.max_runs)
    /\ end_time - now >= repeat_every_seconds

\* The most recent nonzero code of a history of exit codes, 0 if there is none
RECURSIVE LastNonzeroOf(_)
LastNonzeroOf(cs) ==
    IF cs = <<>> THEN 0
    ELSE IF cs[Len(cs)] # 0 THEN cs[Len(cs)]
    ELSE LastNonzeroOf(SubSeq(cs, 1, Len(cs) - 1))

\* C3: in repeat mode with continueOnError=true the scheduler returns the exit code of
\* the most recent run that exited nonzero, or 0 if none did; a later successful run
\* does not reset it.
FinalCodeIsLastNonzero ==
    (runMode = "repeat" /\ runArgs.continue_on_error /\ runPc = "done") =>
        runResult = Some(LastNonzeroOf(codes))

\* Runs exit 1, 2, 0: the scheduler returns 2
FinalCodeWitness ==
    /\ runMode = "repeat"
    /\ runArgs.continue_on_error
    /\ runPc = "done"
    /\ codes = <<1, 2, 0>>
    /\ runResult = Some(2)

\* C4: in repeat mode with maxRuns = n the scheduler never starts more than n runs; with
\* maxRuns = 1 exactly one run executes and there is no sleep, whatever time remains.
MaxRunsCaps ==
    (runMode = "repeat" /\ ~IsNone(runArgs.max_runs)) =>
        /\ run_index <= Val(runArgs.max_runs)
        /\ Len(codes) <= Val(runArgs.max_runs)
        /\ Val(runArgs.max_runs) = 1 =>
            /\ sleeps = <<>>
            /\ runPc = "done" => Len(codes) = 1

\* maxRuns = 1: one successful run, the scheduler is done with time left for a sleep
MaxRunsWitness ==
    /\ runMode = "repeat"
    /\ runArgs.max_runs = Some(1)
    /\ runPc = "done"
    /\ codes = <<0>>
    /\ sleeps = <<>>
    /\ end_time - now >= repeat_every_seconds

\* What single-run mode looks like: no sleep, the runner invoked once, its code returned
SingleRunShape ==
    /\ sleeps = <<>>
    /\ \/ runPc = "single" /\ codes = <<>>
       \/ runPc = "done" /\ Len(codes) = 1 /\ runResult = Some(codes[1])

\* A run command that is no dry run, has reached its cadence handling with no
\* maxRuns and no continueOnError, and has no repeat_for in effect
SingleRunCase ==
    /\ CadenceReached
    /\ ~runArgs.dry_run
    /\ IsNone(runArgs.max_runs)
    /\ ~runArgs.continue_on_error
    /\ ~RepeatForInEffect

\* C5 as stated: when no repeat_for is in effect, run invokes the runner exactly once,
\* never sleeps, and returns that run's exit code.
SingleRunAlways == SingleRunCase => SingleRunShape

\* C5: when no repeat_for is in effect and no repeat_every either, run invokes the
\* runner exactly once, never sleeps, and returns that run's exit code; with a
\* repeat_every but no repeat_for in effect it fails before the runner is invoked.
SingleRunUnlessEvery ==
    SingleRunCase =>
        IF RepeatEveryInEffect
        THEN runPc = "failed" /\ runError = "RepeatEveryRequiresRepeatFor" /\ codes = <<>>
        ELSE SingleRunShape

\* The only run of a single-run invocation has exited 2
SingleRunWitness ==
    /\ SingleRunCase
    /\ ~RepeatEveryInEffect
    /\ runMode = "single"
    /\ runPc = "done"
    /\ codes = <<2>>
    /\ runResult = Some(2)

\* C6: run fails with an InvalidCadence error, before the runner is invoked, whenever
\* maxRuns is set and <= 0, or maxRuns is set while no repeat_for is in effect, or
\* continueOnError is set while no repeat_for is in effect.
CadencePreconditions ==
    (/\ CadenceReached
     /\ \/ ~IsNone(runArgs.max_runs) /\ Val(runArgs.max_runs) <= 0
        \/ ~IsNone(runArgs.max_runs) /\ ~RepeatForInEffect
        \/ runArgs.continue_on_error /\ ~RepeatForInEffect) =>
        /\ runPc = "failed"
        /\ runError \in InvalidCadence
        /\ codes = <<>>

\* maxRuns = 0 on a template with a repeat_for of its own
CadencePreconditionsWitness ==
    /\ runPc = "failed"
    /\ runError = "MaxRunsNotPositive"
    /\ runArgs.max_runs = Some(0)
    /\ RepeatForInEffect
    /\ codes = <<>>

\* C7: in repeat mode, after a run that did not end the scheduler by fail-fast, the
\* scheduler terminates if maxRuns is reached, or the time remaining until the deadline
\* is <= 0, or repeatEvery is greater than the time remaining; otherwise, and only
\* otherwise, it sleeps for exactly repeatEvery and then starts run i+1: a sleep is
\* always followed by a run, never by termination.
StopOrSleep ==
    [][/\ (/\ runPc = "running"
           /\ runPc' \in {"done", "sleeping"}
           /\ ~(codes'[Len(codes')] # 0 /\ ~runArgs.continue_on_error)) =>
              IF \/ ~IsNone(runArgs.max_runs) /\ run_index >= Val(runArgs.max_runs)
                 \/ end_time - now' <= 0
                 \/ repeat_every_seconds > end_time - now'
              THEN runPc' = "done" /\ runResult' = Some(last_nonzero') /\ sleeps' = sleeps
              ELSE runPc' = "sleeping" /\ sleeps' = Append(sleeps, repeat_every_seconds)
       /\ runPc = "sleeping" =>
              /\ runPc' = "running"
              /\ run_index' = run_index + 1
              /\ codes' = codes
              /\ now' >= now + repeat_every_seconds]_vars

\* The first run left exactly repeatEvery of the window; the scheduler slept and run
\* 2 has started
StopOrSleepWitness ==
    /\ runMode = "repeat"
    /\ runPc = "running"
    /\ run_index = 2
    /\ Len(ends) = 1
    /\ end_time - ends[1] = repeat_every_seconds
    /\ sleeps = <<repeat_every_seconds>>

\* run soak, whose template says repeat_for 3s and repeat_every 1s, with no cadence flag
\* and no dry run; every run so far has exited 0
RepeatScenario ==
    /\ runPc # "idle"
    /\ runArgs.name = <<"soak">>
    /\ RunTemplate["repeat_for"] = Some(Dur3s)
    /\ RunTemplate["repeat_every"] = Some(Dur1s)
    /\ IsNone(runArgs.repeat_for)
    /\ IsNone(runArgs.repeat_every)
    /\ IsNone(runArgs.max_runs)
    /\ ~runArgs.dry_run
    /\ \A i \in 1..Len(codes) : codes[i] = 0

\* C8 as stated: repeat_for 3s and repeat_every 1s from the template, no maxRuns, a
\* runner that always exits 0: the scheduler executes at least 2 runs, then terminates
\* with exit code 0.
RepeatScenarioTwoRuns ==
    (RepeatScenario /\ runPc = "done") => Len(codes) >= 2 /\ runResult = Some(0)

\* The first run ended with at least repeat_every of the window left
FirstRunLeavesInterval == ends # <<>> /\ end_time - ends[1] >= repeat_every_seconds

\* C8: in the same scenario, if the first run ends with at least repeat_every (1s) of
\* the 3s window left, the scheduler executes at least 2 runs; it terminates, with exit
\* code 0, and when it does the time remaining is insufficient for another full interval.
RepeatScenarioTwoRunsInTime ==
    /\ [](RepeatScenario /\ runPc = "done" =>
            /\ runResult = Some(0)
            /\ end_time - now < repeat_every_seconds
            /\ FirstRunLeavesInterval => Len(codes) >= 2)
    /\ (RepeatScenario /\ runPc = "running") ~> (runPc \in {"done", "failed"})

\* Three runs at 0 s, 1 s and 2 s, each exiting 0 at once, then the scheduler is done
RepeatScenarioWitness ==
    /\ RepeatScenario
    /\ runPc = "done"
    /\ FirstRunLeavesInterval
    /\ Len(codes) >= 3
    /\ runResult = Some(0)

----------------------------------------------------------------------------
(* normalize_template_data called on its own output *)

\* The store and the config `init` leaves, no command running
FreshProject ==
    /\ files = command_init(<<>>)
    /\ cfg = DEFAULT_CONFIG
    /\ lastCmd = "init"
    /\ lastStatus = "ok"
    /\ RunIdle

\* path.stem of a template file, as load_template passes it; a file may be called
\* " x.json" or " .json"
FallbackNames == {None, Some(<<"fallback">>), Some(<<" ", "x">>), Some(Blank)}

NormalizeInit ==
    /\ FreshProject
    /\ input \in [data : RawRecords, fallback_name : FallbackNames]
    /\ output = <<>>
    /\ stage = "called"

\* normalize_template_data(data, fallback_name) returns or raises
Normalize ==
    /\ stage = "called"
    /\ output' = <<normalize_template_data(input.data, input.fallback_name)>>
    /\ stage' = "returned"
    /\ UNCHANGED <<input, storeVars, runVars>>

\* normalize_template_data(out) on the mapping the first call returned, as save_template
\* calls it
Renormalize ==
    /\ stage = "returned"
    /\ output[1].err = ""
    /\ output' = Append(output, normalize_template_data(output[1].out, None))
    /\ stage' = "again"
    /\ UNCHANGED <<input, storeVars, runVars>>

NormalizeNext == Normalize \/ Renormalize

NormalizeSpec == NormalizeInit /\ [][NormalizeNext]_vars

\* C11: for every raw record and optional fallback name on which normalize succeeds,
\* normalizing its output succeeds and returns the same record.
NormalizeIdempotent ==
    stage = "again" => output[2].err = "" /\ output[2].out = output[1].out

\* A record without a name, read from the file " x.json": the first call returns the
\* name " x", the second the name "x"
NormalizeTwiceDiffers ==
    /\ stage = "again"
    /\ "name" \notin DOMAIN input.data
    /\ input.fallback_name = Some(<<" ", "x">>)
    /\ output[1].out["name"] = Some(<<" ", "x">>)
    /\ output[2].err = ""
    /\ output[2].out["name"] = Some(<<"x">>)

----------------------------------------------------------------------------
(* prompting.py: render_text_with_vars and build_prompt, on texts spelled one *)
(* character per token                                                        *)

\* [a-zA-Z_] and [a-zA-Z0-9_.-] of VAR_PATTERN, over the characters the model writes
KeyStartChars ==
    {"a", "b", "c", "d", "e", "f", "g", "h", "i", "j", "k", "l", "m", "n", "o", "p", "q", "r",
     "s", "t", "u", "v", "w", "x", "y", "z", "_"}
KeyChars == KeyStartChars \cup Digits \cup {".", "-"}

\* The extent of \s* from i on: the first index >= i that holds no whitespace
RECURSIVE SkipSpaces(_, _)
SkipSpaces(s, i) == IF i <= Len(s) /\ s[i] = " " THEN SkipSpaces(s, i + 1) ELSE i

\* The extent of [a-zA-Z0-9_.-]* from i on
RECURSIVE KeyEnd(_, _)
KeyEnd(s, i) == IF i <= Len(s) /\ s[i] \in KeyChars THEN KeyEnd(s, i + 1) ELSE i

NoMatch == [end |-> 0, key |-> <<>>]

\* \s*\}\} at c, after the key s[k..e-1]
MatchBraces(s, k, e, c) ==
    IF c + 1 <= Len(s) /\ s[c] = "}" /\ s[c + 1] = "}"
    THEN [end |-> c + 2, key |-> SubSeq(s, k, e - 1)]
    ELSE NoMatch

\* ([a-zA-Z_][a-zA-Z0-9_.-]*) at k
MatchKey(s, k) ==
    IF k <= Len(s) /\ s[k] \in KeyStartChars
    THEN MatchBraces(s, k, KeyEnd(s, k + 1), SkipSpaces(s, KeyEnd(s, k + 1)))
    ELSE NoMatch

\* VAR_PATTERN anchored at i: [end |-> index after the match, key |-> group(1)], end 0
\* when it does not match
MatchAt(s, i) ==
    IF i + 1 <= Len(s) /\ s[i] = "{" /\ s[i + 1] = "{" THEN MatchKey(s, SkipSpaces(s, i + 2))
    ELSE NoMatch

Rendered(text, missing) == [text |-> text, missing |-> missing]

\* What has been rendered so far, then the rest
RenderJoin(piece, missing, rest) ==
    Rendered(piece \o rest.text, missing \cup rest.missing)

\* repl(match): the value of a known key, else match.group(0) and the key recorded
RECURSIVE RenderFrom(_, _, _)
RenderMatch(s, i, variables, m) ==
    IF m.end = 0 THEN RenderJoin(<<s[i]>>, {}, RenderFrom(s, i + 1, variables))
    ELSE IF m.key \in DOMAIN variables
         THEN RenderJoin(variables[m.key], {}, RenderFrom(s, m.end, variables))
         ELSE RenderJoin(SubSeq(s, i, m.end - 1), {m.key}, RenderFrom(s, m.end, variables))

\* VAR_PATTERN.sub(repl, text) from index i on
RenderFrom(s, i, variables) ==
    IF i > Len(s) THEN Rendered(<<>>, {}) ELSE RenderMatch(s, i, variables, MatchAt(s, i))

\* render_text_with_vars(text, variables): [text, missing]
render_text_with_vars(text, variables) == RenderFrom(text, 1, variables)

\* {**base_vars, **user_vars}, with the user's value where both have the key
MergeVarsBaseWins(base_vars, user_vars) ==
    [k \in DOMAIN base_vars \cup DOMAIN user_vars |->
        IF k \in DOMAIN base_vars THEN base_vars[k] ELSE user_vars[k]]

MergeVars(base_vars, user_vars) ==
    [k \in DOMAIN base_vars \cup DOMAIN user_vars |->
        IF k \in DOMAIN user_vars THEN user_vars[k] ELSE base_vars[k]]

\* One character per token
KeyTask == <<"t", "a", "s", "k">>
KeyExtra == <<"e", "x", "t", "r", "a">>
KeyTemplate == <<"t", "e", "m", "p", "l", "a", "t", "e">>
KeyDescription == <<"d", "e", "s", "c", "r", "i", "p", "t", "i", "o", "n">>
KeyProfile == <<"p", "r", "o", "f", "i", "l", "e">>
KeyScope == <<"s", "c", "o", "p", "e">>
KeySpecificTo == <<"s", "p", "e", "c", "i", "f", "i", "c", "_", "t", "o">>
KeyRoot == <<"r", "o", "o", "t">>

\* template.get(key, default) as a str
TemplateGet(template, key, default) == IF key \in DOMAIN template THEN Str(template[key]) ELSE default

\* base_vars of build_prompt
base_vars(template, task, extra, root, selected_profile) ==
    (KeyTask :> Strip(task))
    @@ (KeyExtra :> (IF IsNone(extra) THEN <<>> ELSE Strip(Val(extra))))
    @@ (KeyTemplate :> Val(template["name"]))
    @@ (KeyDescription :> Val(template["description"]))
    @@ (KeyProfile :> selected_profile)
    @@ (KeyScope :> TemplateGet(template, "scope", <<"g", "e", "n", "e", "r", "a", "l">>))
    @@ (KeySpecificTo :> TemplateGet(template, "specific_to", <<>>))
    @@ (KeyRoot :> root)

\* The four texts build_prompt renders and the union of what they miss
PromptParts(role_prompt, instructions, task_text, extra_text) ==
    [role_prompt |-> role_prompt.text, instructions |-> instructions.text,
     task_text |-> task_text.text, extra_text |-> extra_text.text,
     missing |-> role_prompt.missing \cup instructions.missing \cup task_text.missing
                 \cup extra_text.missing]

PromptWith(template, task, extra, variables) ==
    PromptParts(render_text_with_vars(Val(template["role_prompt"]), variables),
                render_text_with_vars(Val(template["instructions"]), variables),
                render_text_with_vars(Strip(task), variables),
                IF Truthy(extra) /\ Strip(Val(extra)) # <<>>
                THEN render_text_with_vars(Strip(Val(extra)), variables)
                ELSE Rendered(<<>>, {}))

\* build_prompt(template, task, extra, root, selected_profile, user_vars): the rendered
\* parts of the prompt and the missing set
build_prompt(template, task, extra, root, selected_profile, user_vars) ==
    PromptWith(template, task, extra,
               MergeVars(base_vars(template, task, extra, root, selected_profile), user_vars))

\* "{{" key "}}"
Braced(key) == <<"{", "{">> \o key \o <<"}", "}">>

\* Pieces of the texts rendered: placeholders (one with inner whitespace, one with a
\* key of several characters), a brace pair that holds no key, lone braces, plain text
RenderPieces ==
    {Braced(<<"a">>), <<"{", "{", " ", "b", " ", "}", "}">>, Braced(<<"a", "-", "1">>),
     Braced(<<"1">>), <<"{", "{">>, <<"}", "}">>, <<"x">>, <<" ">>}

\* The texts made of n pieces
RECURSIVE TextsOf(_)
TextsOf(n) ==
    IF n = 0 THEN {<<>>} ELSE {t \o piece : t \in TextsOf(n - 1), piece \in RenderPieces}

RenderTexts == UNION {TextsOf(n) : n \in 0..MaxPieces}

\* The dict with the keys a and b, an entry that is None left out
VarMap(va, vb) ==
    [k \in {key \in {<<"a">>, <<"b">>} : ~IsNone(IF key = <<"a">> THEN va ELSE vb)} |->
        IF k = <<"a">> THEN Val(va) ELSE Val(vb)]

\* Variable maps over the keys a and b; a value may be empty or hold a placeholder
RenderVarMaps ==
    {VarMap(va, vb) :
        va \in {None, Some(<<"v">>), Some(Braced(<<"b">>)), Some(<<>>)},
        vb \in {None, Some(<<"w">>), Some(Braced(<<"a">>))}}

RenderCalls == [fn : {"render"}, text : RenderTexts, variables : RenderVarMaps]

KeyOwner == <<"o", "w", "n", "e", "r">>

\* Templates, tasks and --var maps handed to build_prompt
PromptTemplates ==
    {Compact([name |-> Some(<<"n">>), description |-> Some(<<"d">>),
              role_prompt |-> Some(rp), instructions |-> Some(ins),
              scope |-> Some(<<"g", "e", "n", "e", "r", "a", "l">>)]) :
        rp \in {Braced(KeyTask), Braced(KeyOwner) \o <<" ">> \o Braced(KeyTask),
                Braced(KeyProfile)},
        ins \in {Braced(KeyOwner), <<"x">>}}

UserVarMaps ==
    {[k \in keys |-> IF k = KeyTask THEN <<"u">> ELSE <<"q">>] : keys \in SUBSET {KeyTask, KeyOwner}}

PromptCalls ==
    [fn : {"prompt"}, template : PromptTemplates,
     task : {<<"t">>, <<" ", "t", " ">>, Braced(KeyOwner)},
     extra : {None, Some(Braced(KeyTask)), Some(Blank)},
     root : {<<"r">>}, selected_profile : {<<"p">>}, user_vars : UserVarMaps]

RenderInit ==
    /\ FreshProject
    /\ input \in RenderCalls \cup PromptCalls
    /\ output = <<>>
    /\ stage = "called"

\* render_text_with_vars(text, variables) returns
Render ==
    /\ stage = "called"
    /\ input.fn = "render"
    /\ output' = <<render_text_with_vars(input.text, input.variables)>>
    /\ stage' = "returned"
    /\ UNCHANGED <<input, storeVars, runVars>>

\* The text it returned is rendered again with the same variables, when nothing was
\* missing
Rerender ==
    /\ stage = "returned"
    /\ input.fn = "render"
    /\ output[1].missing = {}
    /\ output' = Append(output, render_text_with_vars(output[1].text, input.variables))
    /\ stage' = "again"
    /\ UNCHANGED <<input, storeVars, runVars>>

\* build_prompt returns
BuildPrompt ==
    /\ stage = "called"
    /\ input.fn = "prompt"
    /\ output' = <<build_prompt(input.template, input.task, input.extra, input.root,
                                input.selected_profile, input.user_vars)>>
    /\ stage' = "returned"
    /\ UNCHANGED <<input, storeVars, runVars>>

RenderNext == Render \/ Rerender \/ BuildPrompt

RenderSpec == RenderInit /\ [][RenderNext]_vars

\* C12: for every text and variable map such that render returns an empty missing set,
\* rendering the returned text again with the same map returns the same text and an
\* empty missing set.
RenderIdempotent ==
    (input.fn = "render" /\ stage = "again") =>
        output[2].text = output[1].text /\ output[2].missing = {}

\* "{{a}}" with a = "{{b}}" and no b: nothing is missing, the text returned is "{{b}}",
\* and rendering it again misses b
RerenderMisses ==
    /\ input.fn = "render"
    /\ stage = "again"
    /\ input.text = Braced(<<"a">>)
    /\ input.variables = VarMap(Some(Braced(<<"b">>)), None)
    /\ output[1] = Rendered(Braced(<<"b">>), {})
    /\ output[2] = Rendered(Braced(<<"b">>), {<<"b">>})

\* The first index from i on whose character is not in set, Len(s) + 1 if there is none
FirstNotIn(s, i, set) ==
    CHOOSE n \in i..(Len(s) + 1) :
        /\ n = Len(s) + 1 \/ s[n] \notin set
        /\ \A m \in i..(n - 1) : s[m] \in set

\* Where the key of a placeholder that opens at i starts and ends, and where its
\* closing braces are
KeyFrom(s, i) == FirstNotIn(s, i + 2, {" "})
KeyUpTo(s, i) == FirstNotIn(s, KeyFrom(s, i) + 1, KeyChars)
CloseAt(s, i) == FirstNotIn(s, KeyUpTo(s, i), {" "})

\* A placeholder opens at i: "{{", whitespace, a key, whitespace, "}}"
PlaceholderAt(s, i) ==
    /\ i + 1 <= Len(s) /\ s[i] = "{" /\ s[i + 1] = "{"
    /\ KeyFrom(s, i) <= Len(s) /\ s[KeyFrom(s, i)] \in KeyStartChars
    /\ CloseAt(s, i) + 1 <= Len(s) /\ s[CloseAt(s, i)] = "}" /\ s[CloseAt(s, i) + 1] = "}"

KeyOf(s, i) == SubSeq(s, KeyFrom(s, i), KeyUpTo(s, i) - 1)

\* Index p lies in a placeholder that opens before p
InsidePlaceholder(s, p) ==
    \E i \in 1..(p - 1) : PlaceholderAt(s, i) /\ p <= CloseAt(s, i) + 1

\* What position p of the text contributes to the rendered text
PieceAt(s, p, variables) ==
    IF InsidePlaceholder(s, p) THEN <<>>
    ELSE IF ~PlaceholderAt(s, p) THEN <<s[p]>>
    ELSE IF KeyOf(s, p) \in DOMAIN variables THEN variables[KeyOf(s, p)]
    ELSE SubSeq(s, p, CloseAt(s, p) + 1)

RECURSIVE PiecesUpTo(_, _, _)
PiecesUpTo(s, p, variables) ==
    IF p = 0 THEN <<>> ELSE PiecesUpTo(s, p - 1, variables) \o PieceAt(s, p, variables)

\* The text with every placeholder of a known key replaced and every other one kept,
\* and the keys of the placeholders that are not known
Substituted(s, variables) ==
    Rendered(PiecesUpTo(s, Len(s), variables),
             {KeyOf(s, i) : i \in {j \in 1..Len(s) : PlaceholderAt(s, j)}} \ DOMAIN variables)

\* The variables of a build_prompt call: the user's value for a key the user gave, the
\* built-in value otherwise
UserFirst(builtin, user_vars) ==
    [k \in DOMAIN builtin \cup DOMAIN user_vars |->
        IF k \in DOMAIN user_vars THEN user_vars[k] ELSE builtin[k]]

PromptVariables ==
    UserFirst(base_vars(input.template, input.task, input.extra, input.root,
                        input.selected_profile),
              input.user_vars)

\* C13: render replaces each placeholder whose key is in the map by the mapped value,
\* leaves each other placeholder unchanged, and returns as missing exactly the keys of
\* the placeholders of the text that are not in the map; in build_prompt a user-supplied
\* variable wins over the built-in variable of the same name.
RenderSubstitutes ==
    /\ (input.fn = "render" /\ stage # "called") =>
          output[1] = Substituted(input.text, input.variables)
    /\ (input.fn = "prompt" /\ stage = "returned") =>
          /\ output[1].role_prompt =
                 Substituted(Val(input.template["role_prompt"]), PromptVariables).text
          /\ output[1].instructions =
                 Substituted(Val(input.template["instructions"]), PromptVariables).text
          /\ output[1].task_text = Substituted(Strip(input.task), PromptVariables).text
          /\ \A k \in output[1].missing : k \notin DOMAIN input.user_vars

\* build_prompt with --var task=u: "{{owner}} {{task}}" is rendered with the user's task,
\* the owner nobody gave stays and is reported missing
RenderSubstitutesWitness ==
    /\ input.fn = "prompt"
    /\ stage = "returned"
    /\ Val(input.template["role_prompt"]) = Braced(KeyOwner) \o <<" ">> \o Braced(KeyTask)
    /\ input.task = <<"t">>
    /\ DOMAIN input.user_vars = {KeyTask}
    /\ output[1].role_prompt = Braced(KeyOwner) \o <<" ", "u">>
    /\ output[1].missing = {KeyOwner}

----------------------------------------------------------------------------
(* template_paths.py: resolve_existing_template_file on stores written by hand *)

\* Files a templates directory may hold; triage.txt is no template file
ResolvePaths ==
    {<<stem, ext>> : stem \in {<<"triage">>, <<"notes">>}, ext \in TemplateExts}
    \cup {<<<<"triage">>, ".txt">>}

ResolveStores ==
    {[path \in paths |-> StarterData("planning", STARTER_TEMPLATES("planning"))] :
        paths \in SUBSET ResolvePaths}

ResolveNames ==
    {<<"triage">>, <<"triage", ".json">>, <<"triage", ".yaml">>, <<"triage", ".yml">>,
     <<"triage", ".JSON">>, <<"triage", ".txt">>, <<"notes">>, <<"notes", "/", "triage">>,
     Blank}

ResolveInit ==
    /\ files \in ResolveStores
    /\ cfg = DEFAULT_CONFIG
    /\ lastCmd = "init"
    /\ lastStatus = "ok"
    /\ RunIdle
    /\ input \in {[name |-> name, store |-> files] : name \in ResolveNames}
    /\ output = <<>>
    /\ stage = "called"

\* resolve_existing_template_file(root, name) returns or raises
ResolveExisting ==
    /\ stage = "called"
    /\ output' = <<resolve_existing_template_file(files, input.name)>>
    /\ stage' = "returned"
    /\ UNCHANGED <<input, storeVars, runVars>>

ResolveNext == ResolveExisting

ResolveSpec == ResolveInit /\ [][ResolveNext]_vars

\* The template files of the store that have the stem
FilesOfStem(stem) == {path \in DOMAIN files : path[1] = stem /\ path[2] \in TemplateExts}

\* C14: for a name with an explicit extension resolveExisting returns exactly
\* stem+extension if that file exists and fails NotFound otherwise; for a name without
\* extension it returns the only existing file of the stem, fails NotFound if there is
\* none and AmbiguousName if there are several.  It never returns a path that does not
\* exist and leaves the store as it was.
ResolveExistingContract ==
    (stage = "returned" /\ split_template_name(input.name).err = "") =>
        /\ split_template_name(input.name).ext # "" =>
              IF <<split_template_name(input.name).stem, split_template_name(input.name).ext>>
                     \in DOMAIN files
              THEN output[1] = [err |-> "",
                                path |-> <<split_template_name(input.name).stem,
                                           split_template_name(input.name).ext>>]
              ELSE output[1].err = "NotFound"
        /\ split_template_name(input.name).ext = "" =>
              /\ FilesOfStem(input.name) = {} => output[1].err = "NotFound"
              /\ Cardinality(FilesOfStem(input.name)) > 1 => output[1].err = "AmbiguousName"
              /\ Cardinality(FilesOfStem(input.name)) = 1 =>
                    output[1].err = "" /\ FilesOfStem(input.name) = {output[1].path}
        /\ output[1].err = "" => output[1].path \in DOMAIN files
        /\ files = input.store

\* `triage` while triage.json and triage.yaml both exist: AmbiguousName
ResolveExistingWitness ==
    /\ stage = "returned"
    /\ input.name = <<"triage">>
    /\ {<<<<"triage">>, ".json">>, <<<<"triage">>, ".yaml">>} \subseteq DOMAIN files
    /\ output[1].err = "AmbiguousName"

----------------------------------------------------------------------------
(* One store command on a project that earlier commands have written: `input` *)
(* keeps the command, its arguments and the store it found.                   *)

\* `create NAME ... --scope specific --specific-to checkout-service --repeat-for 3s
\* --repeat-every 1s --profile default`
StoredArgs(name, format) ==
    [name |-> name, description |-> D1, role |-> R1, instructions |-> I1,
     profile |-> Some(DEFAULT_PROFILE_NAME), scope |-> <<"specific">>,
     specific_to |-> Some(Svc), repeat_for |-> Some(Dur3s), repeat_every |-> Some(Dur1s),
     format |-> format, force |-> FALSE]

\* The project after init, and after init and one such create
CommandStores ==
    {command_init(<<>>)}
    \cup {command_create(command_init(<<>>), DEFAULT_CONFIG, StoredArgs(n, f)).fs :
            n \in {<<"triage">>, <<"triage", ".yml">>}, f \in {None, Some("yaml")}}

\* The config after init, and after `profile default-format yaml`
YamlConfig == [DEFAULT_CONFIG EXCEPT !.default_template_format = "yaml"]
CommandConfigs == {DEFAULT_CONFIG, YamlConfig}

CommandNames ==
    {<<"planning">>, <<"triage">>, <<"triage", ".yaml">>, <<"notes">>, <<"notes", ".yaml">>,
     <<" ", "notes">>}

CreateCallArgs ==
    [name : CommandNames, description : {D1}, role : {R1}, instructions : {I1},
     profile : {None, Some(Ghost)}, scope : {<<"general">>}, specific_to : {None},
     repeat_for : {None}, repeat_every : {None}, format : FormatOpts, force : BOOLEAN]

MoveCallArgs ==
    [source : {<<"planning">>, <<"triage">>, Ghost}, target : CommandNames,
     format : FormatOpts, force : BOOLEAN]

AiCallArgs ==
    [request : {<<"triage", " ", "bugs">>},
     name : {Some(<<"notes">>), Some(<<"notes", ".yaml">>), Some(<<"triage", ".yaml">>),
             Some(<<"triage">>)},
     runner_profile : {None}, bind_profile : {None}, scope : {None, Some(<<"general">>)},
     specific_to : {None}, repeat_for : {None}, repeat_every : {None}, format : FormatOpts,
     dry_run : {FALSE}]

\* The runner prints a usable JSON object
AiCallEnv ==
    [found |-> TRUE, returncode |-> 0,
     generated |-> Some(Compact([description |-> Some(D1), role_prompt |-> Some(R1),
                                 instructions |-> Some(I1)]))]

\* The runner prints an object that proposes a specific scope
AiSpecificEnv ==
    [found |-> TRUE, returncode |-> 0,
     generated |-> Some(Compact([description |-> Some(D1), role_prompt |-> Some(R1),
                                 instructions |-> Some(I1), scope |-> Some(<<"SPECIFIC">>),
                                 specific_to |-> Some(Svc)]))]

\* env is what the runner does in an ai call, None for the other commands
CommandCalls ==
    {[cmd |-> "create", args |-> a, env |-> None] : a \in CreateCallArgs}
    \cup {[cmd |-> "rename", args |-> a, env |-> None] : a \in MoveCallArgs}
    \cup {[cmd |-> "copy", args |-> a, env |-> None] : a \in MoveCallArgs}
    \cup {[cmd |-> "ai", args |-> a, env |-> Some(e)] :
             a \in AiCallArgs, e \in {AiCallEnv, AiSpecificEnv}}

CommandInit ==
    /\ files \in CommandStores
    /\ cfg \in CommandConfigs
    /\ lastCmd = "init"
    /\ lastStatus = "ok"
    /\ RunIdle
    /\ \E call \in CommandCalls :
           input = [cmd |-> call.cmd, args |-> call.args, env |-> call.env, store |-> files]
    /\ output = <<>>
    /\ stage = "called"

\* The command of `input` runs to its end
Returned(cmd, r) ==
    /\ files' = r.fs
    /\ lastCmd' = cmd
    /\ lastStatus' = r.status
    /\ stage' = "returned"
    /\ UNCHANGED <<cfg, runVars, input, output>>

CreateCall ==
    /\ stage = "called"
    /\ input.cmd = "create"
    /\ Returned("create", command_create(files, cfg, input.args))

RenameCall ==
    /\ stage = "called"
    /\ input.cmd = "rename"
    /\ Returned("rename", command_rename(files, input.args))

CopyCall ==
    /\ stage = "called"
    /\ input.cmd = "copy"
    /\ Returned("copy", command_copy(files, input.args))

AiCall ==
    /\ stage = "called"
    /\ input.cmd = "ai"
    /\ Returned("ai", command_ai(files, cfg, input.args, Val(input.env)))

CommandNext == CreateCall \/ RenameCall \/ CopyCall \/ AiCall

CommandSpec == CommandInit /\ [][CommandNext]_vars

\* The name a create or an ai call in create mode gives its template
CallName == IF input.cmd = "ai" THEN Strip(Val(input.args.name)) ELSE input.args.name

\* A create, or an ai that finds no template of that name, has returned
CreatedCall ==
    /\ stage = "returned"
    /\ \/ input.cmd = "create"
       \/ /\ input.cmd = "ai"
          /\ maybe_resolve_existing_template_file(input.store, CallName) = [err |-> "", path |-> None]

\* C15: when create (or ai in create mode) is given a name with an explicit template
\* extension and no --format, the file is written with that extension whatever
\* default_template_format is, and FormatConflict is raised only when a --format was
\* given that differs from the format the extension implies
ExplicitExtensionWins ==
    (CreatedCall /\ split_template_name(CallName).ext # "")
        => /\ lastStatus = "FormatConflict"
                => /\ ~IsNone(input.args.format)
                   /\ Val(input.args.format) # TEMPLATE_EXT_TO_FORMAT(split_template_name(CallName).ext)
           /\ (lastStatus = "ok" /\ IsNone(input.args.format))
                => <<split_template_name(CallName).stem, split_template_name(CallName).ext>>
                       \in DOMAIN files

\* `create notes.yaml` with no --format, default_template_format json: FormatConflict
ExtensionLosesToDefault ==
    /\ stage = "returned"
    /\ input.cmd = "create"
    /\ input.args.name = <<"notes", ".yaml">>
    /\ IsNone(input.args.format)
    /\ IsNone(input.args.profile)
    /\ cfg.default_template_format = "json"
    /\ lastStatus = "FormatConflict"
    /\ files = input.store

\* The source a rename or a copy loads
CallSource == load_template(input.store, input.args.source)

\* The call gets as far as computing its target path: create has passed its profile
\* check, rename and copy have loaded their source
ReachesTarget ==
    \/ /\ input.cmd = "create"
       /\ Truthy(input.args.profile) => ~UnknownProfile(cfg, Strip(Val(input.args.profile)))
    \/ /\ input.cmd \in {"rename", "copy"}
       /\ CallSource.err = ""

\* The target path the call computes: [err, path]
CallTarget ==
    IF input.cmd = "create"
    THEN resolve_new_template_file(input.args.name, Some(ChosenFormat(input.args.format, cfg)), None)
    ELSE resolve_new_template_file(input.args.target, input.args.format,
                                   Some(CallSource.path[2]))

CallTargetStem ==
    split_template_name(IF input.cmd = "create" THEN input.args.name ELSE input.args.target).stem

\* Some file of the target stem is at another path than the target path
StemElsewhere ==
    \E ext \in TemplateExts :
        /\ <<CallTargetStem, ext>> \in DOMAIN input.store
        /\ <<CallTargetStem, ext>> # CallTarget.path

\* C16: create, rename and copy fail with DuplicateStem, writing and deleting nothing,
\* whenever a file of the target stem exists at a path other than the computed target
\* path, --force or not, the command's own source file included
DuplicateStemRefused ==
    (/\ stage = "returned"
     /\ input.cmd \in {"create", "rename", "copy"}
     /\ ReachesTarget
     /\ CallTarget.err = ""
     /\ StemElsewhere)
        => /\ lastStatus = "DuplicateStem"
           /\ files = input.store

\* `rename triage triage --format yaml --force` on a store with triage.json
DuplicateStemWitness ==
    /\ stage = "returned"
    /\ input.cmd = "rename"
    /\ input.args = [source |-> <<"triage">>, target |-> <<"triage">>,
                     format |-> Some("yaml"), force |-> TRUE]
    /\ <<<<"triage">>, ".json">> \in DOMAIN input.store
    /\ lastStatus = "DuplicateStem"
    /\ files = input.store

\* The extension the claim gives the renamed file: that of --format, else the source's
RequestedExt ==
    IF ~IsNone(input.args.format) THEN FORMAT_TO_TEMPLATE_EXT(Val(input.args.format))
    ELSE CallSource.path[2]

\* A rename to another stem has succeeded
RenamedCall ==
    /\ stage = "returned"
    /\ input.cmd = "rename"
    /\ lastStatus = "ok"
    /\ CallTargetStem # CallSource.path[1]

\* --force overwrote a file that was at the target path
Overwrote == input.args.force /\ CallTarget.path \in DOMAIN input.store

\* C17: after a successful rename to a target with a different stem the target file
\* exists in the requested format (the source's extension without --format), its name
\* is the target stem, every other field equals the source's, the source file is gone,
\* and the number of templates is unchanged unless --force overwrote an existing target
RenameResult ==
    RenamedCall
        => /\ <<CallTargetStem, RequestedExt>> \in DOMAIN files
           /\ files[<<CallTargetStem, RequestedExt>>].name = Some(CallTargetStem)
           /\ Pop(files[<<CallTargetStem, RequestedExt>>], "name")
                  = Pop(input.store[CallSource.path], "name")
           /\ CallSource.path \notin DOMAIN files
           /\ ~Overwrote => Cardinality(DOMAIN files) = Cardinality(DOMAIN input.store)

\* `rename planning " notes"`: the file " notes.json" holds the name "notes"
RenamedNameDiffers ==
    /\ RenamedCall
    /\ input.args.source = <<"planning">>
    /\ input.args.target = <<" ", "notes">>
    /\ IsNone(input.args.format)
    /\ <<<<" ", "notes">>, ".json">> \in DOMAIN files
    /\ files[<<<<" ", "notes">>, ".json">>].name = Some(<<"notes">>)
    /\ resolve_existing_template_file(files, <<"notes">>).err = "NotFound"

----------------------------------------------------------------------------
(* cmds/profiles.py: the commands that change the config.  Their result is *)
(* [status |-> "ok" or the SystemExit raised, cfg |-> the config after]    *)

\* config_ops.py parse_runner(name, raw): TRUE when it raises
EmptyCommand(raw) == Strip(raw.command) = <<>>

\* The profile object command_profile_add builds from its arguments
ProfileRaw(a) ==
    [command |-> Strip(a.command), args |-> a.arg, prompt_mode |-> a.prompt_mode,
     prompt_flag |-> a.prompt_flag]

AddNamed(c, a, name) ==
    IF name = <<>> THEN [status |-> "EmptyProfileName", cfg |-> c]
    ELSE IF name \in DOMAIN c.profiles /\ ~a.force THEN [status |-> "ProfileExists", cfg |-> c]
    ELSE IF EmptyCommand(ProfileRaw(a)) THEN [status |-> "EmptyCommand", cfg |-> c]
    ELSE [status |-> "ok",
          cfg |-> [c EXCEPT !.profiles =
                      [n \in DOMAIN c.profiles \cup {name} |->
                          IF n = name THEN ProfileRaw(a) ELSE c.profiles[n]]]]

\* command_profile_add
command_profile_add(c, a) == AddNamed(c, a, Strip(a.name))

\* profiles.py:75-81: some template of the store is bound to the profile
ProfileInUseNever(fs, name) == FALSE

ProfileInUse(fs, name) ==
    \E p \in DOMAIN fs :
        /\ p[2] \in TemplateExts
        /\ GetStripped(normalize_template_data(fs[p], Some(p[1])).out, "profile") = name

\* profiles.py:75-76: a stored template that does not normalize ends the command (when
\* another template is bound to the profile, the file order decides which of the two
\* errors is raised; the config is left as it is either way)
UnreadableTemplate(fs) ==
    \E p \in DOMAIN fs :
        p[2] \in TemplateExts /\ normalize_template_data(fs[p], Some(p[1])).err # ""

\* command_profile_remove
command_profile_remove(fs, c, a) ==
    IF a.name \notin DOMAIN c.profiles THEN [status |-> "ProfileNotFound", cfg |-> c]
    ELSE IF a.name = c.default_profile THEN [status |-> "ProfileIsDefault", cfg |-> c]
    ELSE IF UnreadableTemplate(fs) THEN [status |-> "InvalidTemplate", cfg |-> c]
    ELSE IF ProfileInUse(fs, a.name) THEN [status |-> "ProfileInUse", cfg |-> c]
    ELSE [status |-> "ok",
          cfg |-> [c EXCEPT !.profiles = [n \in DOMAIN c.profiles \ {a.name} |-> c.profiles[n]]]]

\* command_profile_default
DefaultAlways(c, a) == [status |-> "ok", cfg |-> [c EXCEPT !.default_profile = a.name]]

command_profile_default(c, a) ==
    IF a.name \notin DOMAIN c.profiles THEN [status |-> "ProfileNotFound", cfg |-> c]
    ELSE [status |-> "ok", cfg |-> [c EXCEPT !.default_profile = a.name]]

\* A profile command runs to its end
Configured(cmd, r) ==
    /\ cfg' = r.cfg
    /\ lastCmd' = cmd
    /\ lastStatus' = r.status
    /\ UNCHANGED <<files, runVars, callVars>>

ProfileAdd(a) == Configured("profile add", command_profile_add(cfg, a))

ProfileRemove(a) == Configured("profile remove", command_profile_remove(files, cfg, a))

ProfileDefault(a) == Configured("profile default", command_profile_default(cfg, a))

----------------------------------------------------------------------------
(* Profiles and the templates bound to them *)

Fast == <<"fast">>

ProfileAddArgs ==
    [name : {Fast, <<" ", "fast">>, DEFAULT_PROFILE_NAME, Blank}, command : {<<"codex">>, Blank},
     arg : {<<>>}, prompt_mode : {"stdin"}, prompt_flag : {<<"--prompt">>}, force : BOOLEAN]

ProfileNameArgs == [name : {DEFAULT_PROFILE_NAME, Fast, Ghost}]

ProfileOpts == {None, Some(Fast), Some(Ghost)}

CreateBoundArgs ==
    [name : {<<"triage">>}, description : {D1}, role : {R1}, instructions : {I1},
     profile : ProfileOpts, scope : {<<"general">>}, specific_to : {None},
     repeat_for : {None}, repeat_every : {None}, format : {None}, force : {TRUE}]

EditBoundArgs ==
    [name : {<<"triage">>}, description : {None}, role : {None},
     instructions : {None}, profile : ProfileOpts \cup {Some(DEFAULT_PROFILE_NAME)},
     clear_profile : BOOLEAN, scope : {None}, clear_specific_to : {FALSE},
     specific_to : {None}, repeat_for : {None}, repeat_every : {None},
     clear_repeat : {FALSE}, clear_repeat_every : {FALSE}]

RenameBoundArgs ==
    [source : {<<"planning">>}, target : {<<"triage">>}, format : {None}, force : {TRUE}]

CopyBoundArgs ==
    [source : {<<"triage">>}, target : {<<"planning">>}, format : {None}, force : {TRUE}]

DeleteBoundArgs ==
    [name : {<<"planning">>, <<"testing">>, <<"review">>, <<"triage">>}]

AiBoundArgs ==
    [request : {<<"triage", " ", "bugs">>}, name : {Some(<<"triage">>)},
     runner_profile : {None}, bind_profile : ProfileOpts, scope : {None}, specific_to : {None},
     repeat_for : {None}, repeat_every : {None}, format : {None}, dry_run : {FALSE}]

\* The runner's JSON object names no profile, an existing one or an unknown one
AiBoundEnvs ==
    {[found |-> TRUE, returncode |-> 0,
      generated |-> Some(Compact([description |-> Some(D1), role_prompt |-> Some(R1),
                                  instructions |-> Some(I1), profile |-> p]))] :
        p \in ProfileOpts}

ProfileNext ==
    \/ \E a \in CreateBoundArgs : Create(a)
    \/ \E a \in EditBoundArgs : Edit(a)
    \/ \E a \in RenameBoundArgs : Rename(a)
    \/ \E a \in CopyBoundArgs : Copy(a)
    \/ \E a \in DeleteBoundArgs : Delete(a)
    \/ \E a \in AiBoundArgs, env \in AiBoundEnvs : Ai(a, env)
    \/ \E a \in ProfileAddArgs : ProfileAdd(a)
    \/ \E a \in ProfileNameArgs : ProfileRemove(a)
    \/ \E a \in ProfileNameArgs : ProfileDefault(a)

ProfileSpec == Init /\ [][ProfileNext]_vars

\* C18: from a freshly initialized project, after any sequence of create, edit, rename,
\* copy, delete, ai, profile add, profile remove and profile default, every stored
\* template that has a profile field names a profile of the current config
ProfilesBound ==
    \A p \in DOMAIN files :
        "profile" \in DOMAIN files[p] => Val(files[p].profile) \in DOMAIN cfg.profiles

\* `profile remove` has refused a profile that a stored template is bound to, and a
\* template is bound to a profile other than the one init wrote
ProfilesBoundWitness ==
    /\ lastCmd = "profile remove"
    /\ lastStatus = "ProfileInUse"
    /\ \E p \in DOMAIN files :
           "profile" \in DOMAIN files[p] /\ files[p].profile = Some(Fast)
    /\ cfg.default_profile = DEFAULT_PROFILE_NAME

\* A step of `profile remove` either fails and leaves the config as it is, or removes a
\* profile other than the default
RemoveKeepsDefault ==
    lastCmd' = "profile remove"
        => IF lastStatus' = "ok"
           THEN /\ cfg.default_profile \in DOMAIN cfg'.profiles
                /\ cfg'.default_profile = cfg.default_profile
           ELSE cfg' = cfg

\* A step of `profile default` either fails and leaves the config as it is, or makes a
\* profile of the config the default
DefaultIsKnown ==
    lastCmd' = "profile default"
        => IF lastStatus' = "ok"
           THEN /\ cfg'.default_profile \in DOMAIN cfg.profiles
                /\ cfg'.profiles = cfg.profiles
           ELSE cfg' = cfg

\* C19: after any sequence of profile add (with or without --force), profile remove and
\* profile default the config's default_profile is a key of profiles and profiles is not
\* empty; removing the default profile and making an unknown profile the default fail
\* and leave the config unchanged
DefaultProfileKept ==
    /\ [](cfg.default_profile \in DOMAIN cfg.profiles /\ DOMAIN cfg.profiles # {})
    /\ [][RemoveKeepsDefault /\ DefaultIsKnown]_vars

\* After `profile default fast`, `profile remove fast` is refused: it is the default
DefaultProfileWitness ==
    /\ lastCmd = "profile remove"
    /\ lastStatus = "ProfileIsDefault"
    /\ cfg.default_profile = Fast
    /\ DOMAIN cfg.profiles = {DEFAULT_PROFILE_NAME, Fast}

----------------------------------------------------------------------------
(* The run command and the profile it selects *)

\* `profile add fast --command codex`
FastArgs ==
    [name |-> Fast, command |-> <<"codex">>, arg |-> <<>>, prompt_mode |-> "stdin",
     prompt_flag |-> <<"--prompt">>, force |-> FALSE]

FastConfig == command_profile_add(DEFAULT_CONFIG, FastArgs).cfg

\* `create quick ... --profile fast`
QuickArgs ==
    [name |-> <<"quick">>, description |-> D1, role |-> R1, instructions |-> I1,
     profile |-> Some(Fast), scope |-> <<"general">>, specific_to |-> None,
     repeat_for |-> None, repeat_every |-> None, format |-> None, force |-> FALSE]

\* The project after init, `profile add fast`, `create soak` (no profile) and
\* `create quick --profile fast`, with either profile as the default
RunProfileInit ==
    /\ files = command_create(command_create(command_init(<<>>), FastConfig, SoakArgs).fs,
                              FastConfig, QuickArgs).fs
    /\ cfg \in {FastConfig, command_profile_default(FastConfig, [name |-> Fast]).cfg}
    /\ lastCmd = "create"
    /\ lastStatus = "ok"
    /\ RunIdle
    /\ CallIdle

RunProfileArgs ==
    [name : {<<"planning">>, <<"soak">>, <<"quick">>, Ghost},
     task : {<<"Fix", " ", "it">>}, extra : {None},
     profile : {None, Some(Fast), Some(DEFAULT_PROFILE_NAME), Some(Ghost), Some(<<" ", "fast">>)},
     var : {<<>>}, strict_vars : {FALSE}, repeat_for : {None}, repeat_every : {None},
     max_runs : {None}, continue_on_error : {FALSE}, dry_run : BOOLEAN]

RunProfileNext ==
    \/ \E a \in RunProfileArgs : RunCommand(a)
    \/ \E code \in ExitCodes : SingleExit(code)
    \/ \E code \in ExitCodes, duration \in RunDurations : RunnerExit(code, duration)
    \/ \E lag \in SleepLags : SleepDone(lag)
    \/ \E kind \in RunnerErrors : RunnerUnavailable(kind)

RunProfileSpec == RunProfileInit /\ [][RunProfileNext]_vars

\* The stored template the run command was given
RunTemplateFile == files[resolve_existing_template_file(files, runArgs.name).path]

\* --profile if given, else the template's own profile if it has one, else the default
ExpectedProfile ==
    IF Truthy(runArgs.profile) THEN Val(runArgs.profile)
    ELSE IF "profile" \in DOMAIN RunTemplateFile THEN Val(RunTemplateFile.profile)
    ELSE cfg.default_profile

\* C20: run uses the profile given by --profile if present, otherwise the template's
\* own profile if it has one, otherwise the config's default_profile; if the selected
\* name is not a key of profiles the command fails with ProfileNotFound and the runner
\* is never invoked
ProfileSelection ==
    (runPc # "idle" /\ resolve_existing_template_file(files, runArgs.name).err = "")
        => /\ selected_name = Some(ExpectedProfile)
           /\ ExpectedProfile \notin DOMAIN cfg.profiles
                => runPc = "failed" /\ runError = "ProfileNotFound" /\ codes = <<>>
           /\ codes # <<>> => ExpectedProfile \in DOMAIN cfg.profiles

\* `run quick` with default profile `default`: the runner has run under the template's
\* own profile, fast
ProfileSelectionWitness ==
    /\ runPc = "done"
    /\ runArgs.name = <<"quick">>
    /\ IsNone(runArgs.profile)
    /\ cfg.default_profile = DEFAULT_PROFILE_NAME
    /\ selected_name = Some(Fast)
    /\ Len(codes) = 1

\* The file an ai call with --name finds for that name in the store: [err, path]
AiExisting == maybe_resolve_existing_template_file(input.store, CallName)

\* An ai call named an existing template by its bare stem, asked for another format
\* than the file's, and completed
AiConverted ==
    /\ stage = "returned"
    /\ input.cmd = "ai"
    /\ split_template_name(CallName).ext = ""
    /\ AiExisting.err = ""
    /\ ~IsNone(AiExisting.path)
    /\ ~IsNone(input.args.format)
    /\ Val(input.args.format) # TEMPLATE_EXT_TO_FORMAT(Val(AiExisting.path)[2])
    /\ lastStatus = "ok"

\* C21: after ai --name STEM --format F on an existing template of another format the
\* stem has exactly one file, with the extension of F, the old file is gone, and with
\* --scope general the stored template is general and has no specific_to even when the
\* generated object proposed a specific scope
AiConvertsFormat ==
    AiConverted
        => /\ find_template_files_by_stem(files, CallName)
                  = {<<CallName, FORMAT_TO_TEMPLATE_EXT(Val(input.args.format))>>}
           /\ Val(AiExisting.path) \notin DOMAIN files
           /\ input.args.scope = Some(<<"general">>)
                => /\ files[<<CallName, FORMAT_TO_TEMPLATE_EXT(Val(input.args.format))>>].scope
                          = Some(<<"general">>)
                   /\ "specific_to" \notin
                          DOMAIN files[<<CallName, FORMAT_TO_TEMPLATE_EXT(Val(input.args.format))>>]

\* `ai --name triage --format yaml --scope general` on triage.json, the runner
\* proposing scope specific
AiConvertsWitness ==
    /\ AiConverted
    /\ CallName = <<"triage">>
    /\ Val(AiExisting.path) = <<<<"triage">>, ".json">>
    /\ input.args.format = Some("yaml")
    /\ input.args.scope = Some(<<"general">>)
    /\ input.env = Some(AiSpecificEnv)
    /\ <<<<"triage">>, ".yaml">> \in DOMAIN files

----------------------------------------------------------------------------
(* Further properties of the run command *)

\* C22: run with --dry-run and a valid cadence never invokes the runner (no execution,
\* no sleep) and returns 0, whether or not repeat_for is in effect
DryRunExecutesNothing ==
    (runPc # "idle" /\ runArgs.dry_run)
        => /\ codes = <<>>
           /\ sleeps = <<>>
           /\ runPc \in {"done", "failed"}
           /\ runError = "" => runPc = "done" /\ runMode = "dry" /\ runResult = Some(0)

\* `run soak --dry-run`: the template's cadence is in effect and nothing has run
DryRunWitness ==
    /\ runPc = "done"
    /\ runArgs.dry_run
    /\ runArgs.name = <<"soak">>
    /\ RepeatForInEffect
    /\ runResult = Some(0)
    /\ codes = <<>>
    /\ sleeps = <<>>

----------------------------------------------------------------------------
(* parse_duration_seconds on its own *)

DurationChars == {"0", "1", "s", "m", "h", "d", ".", " ", "H"}

\* The strings of at most n characters
RECURSIVE DurationStrings(_)
DurationStrings(n) ==
    IF n = 0 THEN {<<>>}
    ELSE DurationStrings(n - 1)
         \cup {Append(s, c) : s \in {t \in DurationStrings(n - 1) : Len(t) = n - 1},
                              c \in DurationChars}

\* No number of more than two digits: the totals, in ms, stay 32-bit integers
ShortNumbers(s) ==
    \A i \in 1..Len(s) : i + 2 <= Len(s) => \E k \in i..(i + 2) : s[k] \notin Digits

DurationInit ==
    /\ FreshProject
    /\ input \in {s \in DurationStrings(MaxDurationLen) : ShortNumbers(s)}
    /\ output = <<>>
    /\ stage = "called"

\* parse_duration_seconds(input, field) returns: <<ms>>, or <<-1>> for its SystemExit
ParseDuration ==
    /\ stage = "called"
    /\ output' = <<parse_duration_seconds(input)>>
    /\ stage' = "returned"
    /\ UNCHANGED <<storeVars, runVars, input>>

DurationNext == ParseDuration

DurationSpec == DurationInit /\ [][DurationNext]_vars

\* first index of the run of digits that ends at j (j + 1 if s[j] is no digit)
RECURSIVE DigitsStart(_, _)
DigitsStart(s, j) == IF j >= 1 /\ s[j] \in Digits THEN DigitsStart(s, j - 1) ELSE j + 1

\* The total in ms of s[1..j] read from its end as <integer><unit> chunks, -1 when some
\* character is not covered by such chunks
RECURSIVE IntegerChunks(_, _)
IntegerChunksBefore(s, i, j, rest) ==
    IF rest = -1 THEN -1 ELSE rest + DigitsInt(s, i, j) * UnitMs(s[j])
IntegerChunks(s, j) ==
    IF j = 0 THEN 0
    ELSE IF s[j] \notin Units \/ DigitsStart(s, j - 1) = j THEN -1
    ELSE IntegerChunksBefore(s, DigitsStart(s, j - 1), j,
                             IntegerChunks(s, DigitsStart(s, j - 1) - 1))

\* The same with <number><unit> chunks, a number being digits with an optional decimal
\* fraction; f is where the digits before the unit start
RECURSIVE NumberChunks(_, _)
NumberChunksBefore(ms, rest) == IF rest = -1 THEN -1 ELSE rest + ms
HasFraction(s, f) == f >= 3 /\ s[f - 1] = "." /\ DigitsStart(s, f - 2) <= f - 2
NumberChunkAt(s, f, j) ==
    IF HasFraction(s, f)
    THEN NumberChunksBefore(
             DigitsInt(s, DigitsStart(s, f - 2), f - 1) * UnitMs(s[j])
                 + FracMs(s, f, j) * (UnitMs(s[j]) \div 1000),
             NumberChunks(s, DigitsStart(s, f - 2) - 1))
    ELSE NumberChunksBefore(DigitsInt(s, f, j) * UnitMs(s[j]), NumberChunks(s, f - 1))
NumberChunks(s, j) ==
    IF j = 0 THEN 0
    ELSE IF s[j] \notin Units \/ DigitsStart(s, j - 1) = j THEN -1
    ELSE NumberChunkAt(s, DigitsStart(s, j - 1), j)

\* C23 as stated: for a string made only of consecutive <integer><unit> chunks with a
\* positive total parse_duration_seconds returns the sum of number x unit-seconds; it
\* fails for the empty string, for a string with characters the chunks do not cover,
\* and for a total of 0
DurationParses ==
    stage = "returned"
        => output[1] = IF IntegerChunks(input, Len(input)) > 0
                       THEN IntegerChunks(input, Len(input)) ELSE -1

\* C23 amended: the same for the text with surrounding whitespace removed and in lower
\* case, read as <number><unit> chunks whose number may have a decimal fraction
DurationParsesNormalized ==
    stage = "returned"
        => output[1] = IF NumberChunks(Lower(Strip(input)), Len(Lower(Strip(input)))) > 0
                       THEN NumberChunks(Lower(Strip(input)), Len(Lower(Strip(input))))
                       ELSE -1

\* "1h1m" is 3660 s
DurationWitness ==
    /\ stage = "returned"
    /\ input = <<"1", "h", "1", "m">>
    /\ output = <<3660000>>

----------------------------------------------------------------------------
(* init on a project that exists already *)

\* command_init (templates_meta.py:30-55) on an initialized project: refused without
\* --force, else the config and the starter templates are written again
InitCommand(force) ==
    /\ files' = IF force THEN command_init(files) ELSE files
    /\ cfg' = IF force THEN DEFAULT_CONFIG ELSE cfg
    /\ lastCmd' = "init"
    /\ lastStatus' = IF force THEN "ok" ELSE "AlreadyInitialized"
    /\ UNCHANGED <<runVars, callVars>>

InitNext == Next \/ \E force \in BOOLEAN : InitCommand(force)

InitSpec == Init /\ [][InitNext]_vars

\* C24: immediately after init the profile named default has command `codex` and an
\* args list that contains `exec`
StarterProfileRunsExec ==
    (lastCmd = "init" /\ lastStatus = "ok")
        => /\ cfg.profiles[DEFAULT_PROFILE_NAME].command = <<"codex">>
           /\ \E i \in 1..Len(cfg.profiles[DEFAULT_PROFILE_NAME].args) :
                  cfg.profiles[DEFAULT_PROFILE_NAME].args[i] = <<"exec">>

\* After init the default profile runs `codex` with no arguments
StarterProfileNoArgs ==
    /\ lastCmd = "init"
    /\ lastStatus = "ok"
    /\ cfg.default_profile = DEFAULT_PROFILE_NAME
    /\ cfg.profiles[DEFAULT_PROFILE_NAME].command = <<"codex">>
    /\ cfg.profiles[DEFAULT_PROFILE_NAME].args = <<>>

\* C29: from any store reachable through the store commands, after init --force no
\* stem has more than one file among the template extensions
InitForceKeepsStems == (lastCmd = "init" /\ lastStatus = "ok") => OneFilePerStem

\* planning was re-created as planning.yml, then init --force wrote planning.json
InitForceDoublesStem ==
    /\ lastCmd = "init"
    /\ lastStatus = "ok"
    /\ <<<<"planning">>, ".yml">> \in DOMAIN files
    /\ <<<<"planning">>, ".json">> \in DOMAIN files
    /\ resolve_existing_template_file(files, <<"planning">>).err = "AmbiguousName"

----------------------------------------------------------------------------
(* command_rename cut at its two file operations: the write of save_template *)
(* (templates_fileops.py:31) and the unlink of the source (32-33)            *)

RenameStepInit ==
    /\ files \in CommandStores
    /\ cfg = DEFAULT_CONFIG
    /\ lastCmd = "init"
    /\ lastStatus = "ok"
    /\ RunIdle
    /\ \E a \in MoveCallArgs : input = [cmd |-> "rename", args |-> a, store |-> files]
    /\ output = <<>>
    /\ stage = "called"

\* What command_rename has decided when it reaches save_template: [err, source, target,
\* data], err the SystemExit of an earlier line
RenamePlanned(fs, a, lt, np, target_stem) ==
    IF lt.err # "" THEN [err |-> lt.err, source |-> <<>>, target |-> <<>>, data |-> <<>>]
    ELSE IF np.err # "" THEN [err |-> np.err, source |-> lt.path, target |-> <<>>, data |-> <<>>]
    ELSE IF StemTaken(fs, target_stem, np.path)
         THEN [err |-> "DuplicateStem", source |-> lt.path, target |-> np.path, data |-> <<>>]
    ELSE IF np.path \in DOMAIN fs /\ np.path # lt.path /\ ~a.force
         THEN [err |-> "AlreadyExists", source |-> lt.path, target |-> np.path, data |-> <<>>]
    ELSE [err |-> "", source |-> lt.path, target |-> np.path,
          data |-> Put(lt.data, "name", target_stem)]

RenamePlanLoaded(fs, a, lt) ==
    RenamePlanned(fs, a, lt,
        IF lt.err # "" THEN NoPath(lt.err)
        ELSE resolve_new_template_file(a.target, a.format, Some(lt.path[2])),
        split_template_name(a.target).stem)

RenamePlan(fs, a) == RenamePlanLoaded(fs, a, load_template(fs, a.source))

\* templates_fileops.py:16-30: the checks before anything is written
RenameChecks ==
    /\ stage = "called"
    /\ output' = <<RenamePlan(files, input.args)>>
    /\ lastCmd' = "rename"
    /\ lastStatus' = IF RenamePlan(files, input.args).err = "" THEN "running"
                     ELSE RenamePlan(files, input.args).err
    /\ stage' = IF RenamePlan(files, input.args).err = "" THEN "saving" ELSE "failed"
    /\ UNCHANGED <<files, cfg, runVars, input>>

\* How path.write_text ends: the file is written, or OSError is raised with the file
\* untouched, or OSError is raised after the file was opened and truncated
WriteOutcomes == {"written", "refused", "truncated"}

\* The store after a write_text that raised
WriteFailed(fs, path, write) == IF write = "truncated" THEN WriteFile(fs, path, <<>>) ELSE fs

\* templates_fileops.py:31 save_template: the record is validated, then written
RenameWriteSourceFirst(write) ==
    /\ stage = "saving"
    /\ files' = IF write # "written" THEN Unlink(files, output[1].source)
                ELSE save_template(files, output[1].target, output[1].data).fs
    /\ lastStatus' = IF write # "written" THEN "OSError" ELSE "running"
    /\ stage' = IF write # "written" THEN "failed" ELSE "written"
    /\ UNCHANGED <<cfg, lastCmd, runVars, input, output>>

RenameWrite(write) ==
    /\ stage = "saving"
    /\ files' = IF save_template(files, output[1].target, output[1].data).status # "ok"
                THEN files
                ELSE IF write # "written" THEN WriteFailed(files, output[1].target, write)
                ELSE save_template(files, output[1].target, output[1].data).fs
    /\ lastStatus' = IF save_template(files, output[1].target, output[1].data).status # "ok"
                     THEN save_template(files, output[1].target, output[1].data).status
                     ELSE IF write # "written" THEN "OSError" ELSE "running"
    /\ stage' = IF write # "written"
                   \/ save_template(files, output[1].target, output[1].data).status # "ok"
                THEN "failed" ELSE "written"
    /\ UNCHANGED <<cfg, lastCmd, runVars, input, output>>

\* templates_fileops.py:32-35: the source is unlinked when it is another path
RenameUnlink ==
    /\ stage = "written"
    /\ files' = IF output[1].target # output[1].source /\ output[1].source \in DOMAIN files
                THEN Unlink(files, output[1].source) ELSE files
    /\ lastStatus' = "ok"
    /\ stage' = "returned"
    /\ UNCHANGED <<cfg, lastCmd, runVars, input, output>>

RenameStepNext == RenameChecks \/ (\E write \in WriteOutcomes : RenameWrite(write)) \/ RenameUnlink

RenameStepSpec == RenameStepInit /\ [][RenameStepNext]_vars

\* A step removes the source file only when the target file holds the validated record
SourceRemovedAfterWrite ==
    (/\ stage # "called"
     /\ output[1].source \in DOMAIN files
     /\ output[1].source \notin DOMAIN files')
        => /\ output[1].target # output[1].source
           /\ output[1].target \in DOMAIN files
           /\ files[output[1].target] = normalize_template_data(output[1].data, None).out

\* C25: in a rename the source file is removed only after the target file has been
\* written with the validated record; if a validation or the write fails the source
\* file still exists with its original content; when the target path is the source path
\* the file is rewritten and never deleted
RenameOrdering ==
    /\ [][SourceRemovedAfterWrite]_vars
    /\ [](stage = "failed"
             => /\ lastStatus # "OSError" => files = input.store
                /\ (output[1].source # <<>> /\ output[1].target # output[1].source)
                      => /\ output[1].source \in DOMAIN files
                         /\ files[output[1].source] = input.store[output[1].source])
    /\ []((stage \in {"saving", "written", "returned"} /\ output[1].target = output[1].source)
              => /\ output[1].source \in DOMAIN files
                 /\ stage # "saving"
                      => files[output[1].source] = normalize_template_data(output[1].data, None).out)
    /\ [](stage = "returned" => files = command_rename(input.store, input.args).fs)

\* `rename planning notes` has returned: notes.json is written and planning.json is gone
RenameOrderingWitness ==
    /\ stage = "returned"
    /\ input.args.source = <<"planning">>
    /\ input.args.target = <<"notes">>
    /\ output[1].target = <<<<"notes">>, ".json">>
    /\ <<<<"notes">>, ".json">> \in DOMAIN files
    /\ <<<<"planning">>, ".json">> \notin DOMAIN files

----------------------------------------------------------------------------
(* One edit of a stored template, with the store before the call kept in `input` *)

\* The stores after init and one `create triage ...`
EditStores ==
    {command_create(command_init(<<>>), DEFAULT_CONFIG, a).fs : a \in CreateContentArgs}

EditCallArgs ==
    {a \in [name : {<<"triage">>}, description : {None, Some(D1)},
            role : {None, Some(Blank)}, instructions : {None},
            profile : {None, Some(Ghost), Some(Fast)}, clear_profile : BOOLEAN,
            scope : {None, Some(<<"general">>), Some(<<"specific">>)},
            clear_specific_to : BOOLEAN, specific_to : {None, Some(Svc), Some(Blank)},
            repeat_for : {None, Some(Dur3s), Some(Blank), Some(DurBad)},
            repeat_every : {None, Some(Dur1s), Some(Blank)},
            clear_repeat : BOOLEAN, clear_repeat_every : BOOLEAN] :
        EditFlags(a) <= MaxFlags}

EditInit ==
    /\ files \in EditStores
    /\ cfg = FastConfig
    /\ lastCmd = "init"
    /\ lastStatus = "ok"
    /\ RunIdle
    /\ \E a \in EditCallArgs : input = [cmd |-> "edit", args |-> a, store |-> files]
    /\ output = <<>>
    /\ stage = "called"

EditCall ==
    /\ stage = "called"
    /\ input.cmd = "edit"
    /\ Returned("edit", command_edit(files, cfg, input.args))

EditNext == EditCall

EditSpec == EditInit /\ [][EditNext]_vars

\* The file the edit was asked to change
EditedPath == resolve_existing_template_file(input.store, input.args.name).path

\* The causes of failure, told from the arguments and the stored record
EditMustFail ==
    \/ EditFlags(input.args) = 0
    \/ input.args.clear_repeat
         /\ (~IsNone(input.args.repeat_for) \/ ~IsNone(input.args.repeat_every))
    \/ ~IsNone(input.args.profile) /\ input.args.clear_profile
    \/ input.args.profile = Some(Ghost)
    \/ input.args.repeat_for \in {Some(Blank), Some(DurBad)}
    \/ input.args.repeat_every = Some(Blank)
    \/ /\ input.args.scope = Some(<<"specific">>)
       /\ input.args.specific_to \in {None, Some(Blank)}
       /\ (input.args.clear_specific_to \/ "specific_to" \notin DOMAIN input.store[EditedPath])
    \/ /\ input.args.repeat_every = Some(Dur1s)
       /\ ~input.args.clear_repeat_every
       /\ IsNone(input.args.repeat_for)
       /\ "repeat_for" \notin DOMAIN input.store[EditedPath]
    \/ input.args.role = Some(Blank)

\* C26: an edit that fails (no update flag, --clear-repeat with a repeat flag, --profile
\* with --clear-profile, unknown profile, invalid or empty duration, scope specific left
\* without specific_to, repeat_every left without repeat_for, a required field made
\* empty) leaves the store as it was; an edit that succeeds rewrites the same path with
\* the same name field and touches no other file
FailedEditChangesNothing ==
    stage = "returned"
        => /\ lastStatus # "ok" => files = input.store
           /\ (EditedPath \in DOMAIN input.store /\ EditMustFail) => lastStatus # "ok"
           /\ lastStatus = "ok"
                => /\ DOMAIN files = DOMAIN input.store
                   /\ \A p \in DOMAIN files \ {EditedPath} : files[p] = input.store[p]
                   /\ files[EditedPath]["name"] = input.store[EditedPath]["name"]

\* `edit triage --role " "` has failed on the empty required field
FailedEditWitness ==
    /\ stage = "returned"
    /\ input.args.role = Some(Blank)
    /\ EditFlags(input.args) = 1
    /\ lastStatus \notin {"ok", "NotFound"}
    /\ EditedPath \in DOMAIN files

----------------------------------------------------------------------------
(* Termination of the repeat scheduler *)

\* The window of the scheduler in ms: the run command starts at time 0
RepeatWindow == end_time

\* C27: in repeat mode, when every runner invocation exits and every sleep returns, the
\* scheduler ends; it has executed at least one run when it returns, and it never starts
\* more than floor(repeatFor / repeatEvery) + 1 runs, nor more than maxRuns when that is
\* set, whatever the exit codes and the durations of the runs, with or without
\* --continue-on-error
SchedulerTerminates ==
    /\ (runMode = "repeat") ~> (runPc \in {"done", "failed"})
    /\ []((runMode = "repeat" /\ runPc = "done") => Len(codes) >= 1)
    /\ [](runMode = "repeat"
            => /\ run_index >= 1
               /\ repeat_every_seconds > 0
               /\ run_index <= (RepeatWindow \div repeat_every_seconds) + 1
               /\ Len(codes) <= run_index
               /\ ~IsNone(runArgs.max_runs) => run_index <= Val(runArgs.max_runs))

\* `run soak --continue-on-error` (3s window, 1s interval) has ended after four runs,
\* the second of which failed
SchedulerTerminatesWitness ==
    /\ runMode = "repeat"
    /\ runPc = "done"
    /\ runArgs.continue_on_error
    /\ IsNone(runArgs.max_runs)
    /\ RepeatWindow = 3000
    /\ repeat_every_seconds = 1000
    /\ codes = <<0, 1, 0, 0>>

----------------------------------------------------------------------------
(* One ai call without --name, with the store before the call kept in `input` *)

TriageBugs == <<"triage", "-", "bugs">>

\* The project after init, after `create triage-bugs ...` in each format, and after a
\* further `create triage-bugs-2 ...`
AutoNameStores ==
    {command_init(<<>>)}
    \cup {command_create(command_init(<<>>), DEFAULT_CONFIG, StoredArgs(n, f)).fs :
            n \in {TriageBugs, TriageBugs \o <<".yml">>}, f \in {None, Some("yaml")}}
    \cup {command_create(
              command_create(command_init(<<>>), DEFAULT_CONFIG, StoredArgs(TriageBugs, f)).fs,
              DEFAULT_CONFIG, StoredArgs(TriageBugs \o <<"-", "2">>, Some("yaml"))).fs :
            f \in {None, Some("yaml")}}

AutoNameArgs ==
    [request : {<<"triage", " ", "bugs">>, <<"the", " ", "triage", " ", "bugs">>,
                <<"2fa", " ", "triage">>, <<" ">>},
     name : {None}, runner_profile : {None, Some(Ghost)}, bind_profile : {None},
     scope : {None}, specific_to : {None}, repeat_for : {None}, repeat_every : {None},
     format : FormatOpts, dry_run : BOOLEAN]

AutoNameInit ==
    /\ files \in AutoNameStores
    /\ cfg \in CommandConfigs
    /\ lastCmd = "init"
    /\ lastStatus = "ok"
    /\ RunIdle
    /\ \E a \in AutoNameArgs, e \in AiEnvs :
           input = [cmd |-> "ai", args |-> a, env |-> Some(e), store |-> files]
    /\ output = <<>>
    /\ stage = "called"

AutoNameNext == AiCall

AutoNameSpec == AutoNameInit /\ [][AutoNameNext]_vars

\* The name the call gives the template
AutoName ==
    next_available_template_name(input.store,
                                 derive_template_name_from_request(input.args.request))

\* C28: an ai call without --name derives a name for which the store holds no file of
\* any extension, so it runs in create mode; it leaves every file of the store as it was
\* and adds at most one file, the one of the derived name
AutoNameTouchesNothing ==
    stage = "returned"
        => /\ find_template_files_by_stem(input.store, AutoName) = {}
           /\ IsNone(maybe_resolve_existing_template_file(input.store, AutoName).path)
           /\ \A p \in DOMAIN input.store : p \in DOMAIN files /\ files[p] = input.store[p]
           /\ Cardinality(DOMAIN files \ DOMAIN input.store) <= 1
           /\ \A p \in DOMAIN files \ DOMAIN input.store : p[1] = AutoName
           /\ lastStatus # "ok" => files = input.store

\* `ai "triage bugs"` in a project that holds triage-bugs and triage-bugs-2 has written
\* triage-bugs-3
AutoNameWitness ==
    /\ stage = "returned"
    /\ lastStatus = "ok"
    /\ find_template_files_by_stem(input.store, TriageBugs) # {}
    /\ find_template_files_by_stem(input.store, TriageBugs \o <<"-", "2">>) # {}
    /\ AutoName = TriageBugs \o <<"-", "3">>
    /\ find_template_files_by_stem(files, TriageBugs \o <<"-", "3">>) # {}
    /\ DOMAIN files # DOMAIN input.store

----------------------------------------------------------------------------
(* One ai call whose runner prints null for optional keys, as the generation prompt   *)
(* of ai_utils.py:34-55 tells it to                                                    *)

\* The JSON objects: every optional key is missing, null, or (repeat_for) a duration
NullableObjects ==
    {[k \in {"description", "role_prompt", "instructions", "scope"} \cup keys |->
         IF k = "description" THEN Some(D1)
         ELSE IF k = "role_prompt" THEN Some(R1)
         ELSE IF k = "instructions" THEN Some(I1)
         ELSE IF k = "scope" THEN Some(sc)
         ELSE IF k = "repeat_for" THEN rf
         ELSE None] :
        sc \in {<<"general">>, <<"specific">>},
        rf \in {None, Some(Dur3s)},
        keys \in SUBSET {"specific_to", "profile", "repeat_for", "repeat_every"}}

NullFieldArgs ==
    [request : {<<"triage", " ", "bugs">>}, name : {Some(<<"notes">>)},
     runner_profile : {None}, bind_profile : {None}, scope : {None},
     specific_to : {None, Some(Svc)}, repeat_for : {None}, repeat_every : {None},
     format : FormatOpts, dry_run : BOOLEAN]

NullFieldInit ==
    /\ files = command_init(<<>>)
    /\ cfg = DEFAULT_CONFIG
    /\ lastCmd = "init"
    /\ lastStatus = "ok"
    /\ RunIdle
    /\ \E a \in NullFieldArgs, g \in NullableObjects :
           input = [cmd |-> "ai", args |-> a,
                    env |-> Some([found |-> TRUE, returncode |-> 0, generated |-> Some(g)]),
                    store |-> files]
    /\ output = <<>>
    /\ stage = "called"

NullFieldNext == AiCall

NullFieldSpec == NullFieldInit /\ [][NullFieldNext]_vars

\* The runner's object of the call, and the same object with its null keys left out
CallGenerated == Val(Val(input.env).generated)
NullsDropped(env) == [env EXCEPT !.generated = Some(Compact(Val(env.generated)))]

\* The optional keys the runner gave as null
NullKeys ==
    {k \in DOMAIN CallGenerated \cap {"specific_to", "profile", "repeat_for", "repeat_every"} :
        IsNone(CallGenerated[k])}

\* C30: a null specific_to, profile, repeat_for or repeat_every in the runner's object
\* is handled as if the key were missing: the call ends as it would without the key,
\* and a template it saves does not hold that field
NullFieldsAbsent ==
    (stage = "returned" /\ NullKeys # {})
        => /\ lastStatus = command_ai(input.store, cfg, input.args,
                                      NullsDropped(Val(input.env))).status
           /\ files = command_ai(input.store, cfg, input.args, NullsDropped(Val(input.env))).fs

\* The runner gave "profile": null and nothing else optional: the call has failed on
\* the profile named None
NullProfileRejected ==
    /\ stage = "returned"
    /\ NullKeys = {"profile"}
    /\ DOMAIN CallGenerated = {"description", "role_prompt", "instructions", "scope", "profile"}
    /\ CallGenerated["scope"] = Some(<<"general">>)
    /\ lastStatus = "UnknownProfile"
    /\ files = input.store
    /\ command_ai(input.store, cfg, input.args, NullsDropped(Val(input.env))).status = "ok"

====
